---------------------------- MODULE Spec2Model ----------------------------
(***************************************************************************)
(* A state-machine model of the barcode scanner application:               *)
(*   - the SMART Health Card key directory refresh (shc.rs),               *)
(*   - the scanner settings panel and its sessions (ui.rs,                 *)
(*     ui/scanner_settings.rs),                                            *)
(*   - the three framing engines (barcode_scanner.rs),                     *)
(*   - the decoder chain (barcode_decoders.rs),                            *)
(*   - one SMART Health Card: its numeric pairs, the issuer transaction    *)
(*     and the stages of decode (shc.rs).                                  *)
(* Each part has its own specification (SpecRefresh, SpecUi, SpecEngine,   *)
(* SpecChain, SpecPairs, SpecTx, SpecCard, ...); a specification leaves    *)
(* the variables of the other parts parked.                                *)
(***************************************************************************)
EXTENDS Integers, Sequences, FiniteSets, TLC

VARIABLES
    \* ---- key directory refresh (shc.rs) ----
    ui_state,        \* UiState: the progress fields behind the mutex
    refresh,         \* the refresh tasks spawned by refresh_vci, by task id
    vci_issuer,      \* table vci_issuer: issuer -> row or NoRow
    vci_issuer_key,  \* table vci_issuer_key: issuer -> set of key ids
    directory,       \* the number of issuers the remote directory lists
    audit,           \* an observer's record of the run (see AuditOf)
    \* ---- scanner settings panel (ui.rs, ui/scanner_settings.rs) ----
    queue,           \* the worker's unbounded action channel, oldest first
    settings,        \* scanner_settings::State
    sessions,        \* scanner sessions by the token ConnectDevice created
    cancelled,       \* the tokens on which cancel() was called
    reloads,         \* the list_devices tasks in flight (their causes)
    \* ---- one scan session (barcode_scanner.rs) ----
    transport,       \* which engine start_scanner spawned
    pc,              \* where the session's task is
    inp,             \* the engine's buffer
    chan,            \* the session's output channel, oldest first
    pending,         \* the item a send() in progress is holding
    rx_closed,       \* the consumer dropped the receiver
    token_cancelled, \* cancel() was called on the session's token
    timerLeft,       \* ms until the interval's next tick
    obs,             \* an observer's record of the session (see ObsInit)
    \* ---- decoder chain (barcode_decoders.rs) ----
    disabled_decoders, \* the names in the shared disabled set
    call,            \* the decode call in progress (see IdleCall)
    toggled,         \* the last two toggle_decoder calls
    enabled_decoders, \* ui State: the "Enabled" checkbox of each decoder
    toggle_tasks,    \* the toggle tasks spawned and not yet run, oldest first
    \* ---- one SMART Health Card (shc.rs) ----
    qr,              \* decode_qr_data at work on one scanned text
    txn,             \* one issuer's rows and the transaction updating them
    card             \* one card on its way through decode (see CardIdle)

refreshVars == <<ui_state, refresh, vci_issuer, vci_issuer_key, directory, audit>>

uiVars == <<queue, settings, sessions, cancelled, reloads>>

engineVars == <<transport, pc, inp, chan, pending, rx_closed, token_cancelled, timerLeft, obs>>

chainVars == <<disabled_decoders, call, toggled, enabled_decoders, toggle_tasks>>

cardVars == <<qr, txn, card>>

vars == <<refreshVars, uiVars, engineVars, chainVars, cardVars>>

\* Frame conditions: a step of one part leaves the other parts alone.
RefreshOnly == UNCHANGED <<uiVars, engineVars, chainVars, cardVars>>
UiOnly == UNCHANGED <<refreshVars, engineVars, chainVars, cardVars>>
EngineOnly == UNCHANGED <<refreshVars, uiVars, chainVars, cardVars>>
ChainOnly == UNCHANGED <<refreshVars, uiVars, engineVars, cardVars>>
PairsOnly == UNCHANGED <<refreshVars, uiVars, engineVars, chainVars, txn, card>>
TxOnly == UNCHANGED <<refreshVars, uiVars, engineVars, chainVars, qr, card>>
CardOnly == UNCHANGED <<refreshVars, uiVars, engineVars, chainVars, qr, txn>>

(***************************************************************************)
(* Key directory refresh                                                   *)
(***************************************************************************)

\* Bounds of the model.
NumIssuers == 3
MaxRefresh == 2
MaxRuns == 2
SmallDirectory == 2

\* buffer_unordered(4)
MaxConcurrent == 4

\* The smallest directory in which the concurrency limit binds.
LargeDirectory == MaxConcurrent + 1

MaxIssuers == IF NumIssuers > LargeDirectory THEN NumIssuers ELSE LargeDirectory

Issuers == 1..MaxIssuers
Tasks == 1..MaxRefresh

NoRow == [present |-> FALSE, error |-> FALSE, fresh |-> FALSE]

\* The remote directory lists the issuers in the order 1..directory; their
\* display names sort the other way round.
NameOf(i) == MaxIssuers + 1 - i

\* The key ids an issuer's JWKS endpoint serves when it answers.
RemoteKeys(i) == IF i % 2 = 1 THEN {i} ELSE {i, i + MaxIssuers}

VciIssuerMeta(i, error, keys) == [name |-> NameOf(i), iss |-> i, error |-> error, keys |-> keys]

\* Vec::push followed by a stable sort_by on the name.
RECURSIVE InsertByName(_, _)
InsertByName(list, meta) ==
    IF list = <<>> THEN <<meta>>
    ELSE IF Head(list).name <= meta.name
         THEN <<Head(list)>> \o InsertByName(Tail(list), meta)
         ELSE <<meta>> \o list

add_issuer(st, meta) == [st EXCEPT !.vci_issuers = InsertByName(@, meta)]

\* A refresh task: the future refresh_vci hands to the worker.  pc is its
\* position in update_vci_issuers, next the index of the first issuer the
\* buffered stream has not started, inflight the started and unfinished
\* per-issuer updates, result what VciLoadingFinished carried.
IdleTask == [pc |-> "idle", ignore_cache |-> FALSE, next |-> 1, inflight |-> {}, result |-> "none"]

UiStateDefault == [vci_issuers_loading |-> FALSE, vci_issuer_loaded |-> 0, vci_issuer_total |-> 0, vci_issuers |-> <<>>]

\* The tables as an earlier run of the program can have left them: empty,
\* or every listed issuer stored with its keys (fresh, or older than 7 days).
StoredRows(n, fresh) ==
    [i \in Issuers |-> IF i <= n THEN [present |-> TRUE, error |-> FALSE, fresh |-> fresh] ELSE NoRow]

StoredKeys(n) == [i \in Issuers |-> IF i <= n THEN RemoteKeys(i) ELSE {}]

\* What an observer notes of a run of the program: its number, whether it
\* follows at once on a run whose refresh succeeded, the tables as the run
\* found them, the issuers whose JWKS was requested, and how the update of
\* each issuer ended.
AuditOf(run, follows_ok, rows, keys) ==
    [run |-> run, follows_ok |-> follows_ok, rows0 |-> rows, keys0 |-> keys,
     fetched |-> {}, outcome |-> [i \in Issuers |-> "none"]]

\* The program starts against a directory of n issuers.
RefreshInitWith(n) ==
    /\ directory = n
    /\ ui_state = UiStateDefault
    /\ refresh = [t \in Tasks |-> IF t = 1 THEN [IdleTask EXCEPT !.pc = "guard"] ELSE IdleTask]
    /\ \/ /\ vci_issuer = [i \in Issuers |-> NoRow]
          /\ vci_issuer_key = [i \in Issuers |-> {}]
       \/ /\ vci_issuer \in {StoredRows(n, TRUE), StoredRows(n, FALSE)}
          /\ vci_issuer_key = StoredKeys(n)
    /\ audit = AuditOf(1, FALSE, vci_issuer, vci_issuer_key)

RefreshInit == RefreshInitWith(NumIssuers)

\* A refresh, made at start or by the button, against a directory of
\* SmallDirectory issuers and tables in which each listed issuer has no
\* row or a row of any age and error flag, with its keys or without.
RowKinds == {NoRow} \cup [present : {TRUE}, error : BOOLEAN, fresh : BOOLEAN]

UpdateInit ==
    /\ directory = SmallDirectory
    /\ ui_state = UiStateDefault
    /\ \E ignore_cache \in BOOLEAN :
          refresh = [t \in Tasks |-> IF t = 1
                                     THEN [IdleTask EXCEPT !.pc = "guard", !.ignore_cache = ignore_cache]
                                     ELSE IdleTask]
    /\ vci_issuer \in [Issuers -> RowKinds]
    /\ \A i \in Issuers : i > SmallDirectory => vci_issuer[i] = NoRow
    /\ vci_issuer_key \in [Issuers -> {{}} \cup {RemoteKeys(i) : i \in Issuers}]
    /\ \A i \in Issuers : /\ vci_issuer_key[i] \in {{}, RemoteKeys(i)}
                          /\ ~vci_issuer[i].present => vci_issuer_key[i] = {}
    /\ audit = AuditOf(1, FALSE, vci_issuer, vci_issuer_key)

DirectoryInit == RefreshInitWith(LargeDirectory)

\* settings(): the button is drawn only while vci_issuers_loading is false;
\* a click calls refresh_vci(true), which spawns update_vci_issuers.
ClickRefresh ==
    /\ RefreshOnly
    /\ ~ui_state.vci_issuers_loading
    /\ \E t \in Tasks :
        /\ refresh[t].pc = "idle"
        /\ \A u \in Tasks : u < t => refresh[u].pc # "idle"
        /\ refresh' = [refresh EXCEPT ![t] = [IdleTask EXCEPT !.pc = "guard", !.ignore_cache = TRUE]]
    /\ UNCHANGED <<ui_state, vci_issuer, vci_issuer_key, directory, audit>>

\* update_vci_issuers, lines 295-298: the in-progress check.
AlreadyLoading(st) == st.vci_issuers_loading

GuardCheck(t) ==
    /\ RefreshOnly
    /\ refresh[t].pc = "guard"
    /\ refresh' = [refresh EXCEPT ![t] =
            IF AlreadyLoading(ui_state)
            THEN [@ EXCEPT !.pc = "done", !.result = "skipped"]
            ELSE [@ EXCEPT !.pc = "fetch"]]
    /\ UNCHANGED <<ui_state, vci_issuer, vci_issuer_key, directory, audit>>

\* update_vci_issuers, lines 300-312: the directory answered; the progress
\* state is reset under the lock and the flag set.
FetchListOk(t) ==
    /\ RefreshOnly
    /\ refresh[t].pc = "fetch"
    /\ ui_state' = [vci_issuers_loading |-> TRUE, vci_issuer_loaded |-> 0,
                    vci_issuer_total |-> directory, vci_issuers |-> <<>>]
    /\ refresh' = [refresh EXCEPT ![t].pc = "run", ![t].next = 1]
    /\ UNCHANGED <<vci_issuer, vci_issuer_key, directory, audit>>

\* update_vci_issuers, line 300: the request or the JSON parse failed.
FetchListErr(t) ==
    /\ RefreshOnly
    /\ refresh[t].pc = "fetch"
    /\ refresh' = [refresh EXCEPT ![t].pc = "done", ![t].result = "err"]
    /\ UNCHANGED <<ui_state, vci_issuer, vci_issuer_key, directory, audit>>

\* Flawed variant of LookupIssuer: the age of the row is not looked at.
LookupIgnoresAge(i, ignore_cache) ==
    LET record == vci_issuer[i]
        key_count == Cardinality(vci_issuer_key[i])
    IN  IF ~record.present
        THEN [iss |-> i, cached |-> FALSE, error |-> FALSE, keys |-> 0]
        ELSE [iss |-> i, cached |-> FALSE, error |-> FALSE, keys |-> key_count]

\* Flawed variant of LookupIssuer: ignore_cache is not looked at.
LookupIgnoresFlag(i, ignore_cache) ==
    LET record == vci_issuer[i]
        key_count == Cardinality(vci_issuer_key[i])
    IN  IF ~record.present
        THEN [iss |-> i, cached |-> FALSE, error |-> FALSE, keys |-> 0]
        ELSE IF ~record.fresh
             THEN [iss |-> i, cached |-> FALSE, error |-> FALSE, keys |-> key_count]
             ELSE [iss |-> i, cached |-> TRUE, error |-> record.error, keys |-> key_count]

\* update_vci_issuer, lines 354-381: the row lookup and what it decides.
\* cached: the row is fresh and the cache is not ignored.
LookupIssuer(i, ignore_cache) ==
    LET record == vci_issuer[i]
        key_count == Cardinality(vci_issuer_key[i])
    IN  IF ~record.present
        THEN [iss |-> i, cached |-> FALSE, error |-> FALSE, keys |-> 0]
        ELSE IF ignore_cache \/ ~record.fresh
             THEN [iss |-> i, cached |-> FALSE, error |-> FALSE, keys |-> key_count]
             ELSE [iss |-> i, cached |-> TRUE, error |-> record.error, keys |-> key_count]

\* buffer_unordered(4) starts the next per-issuer update when a slot is free.
IssuerStart(t) ==
    /\ RefreshOnly
    /\ refresh[t].pc = "run"
    /\ refresh[t].next <= directory
    /\ Cardinality(refresh[t].inflight) < MaxConcurrent
    /\ refresh' = [refresh EXCEPT
            ![t].inflight = @ \cup {LookupIssuer(refresh[t].next, refresh[t].ignore_cache)},
            ![t].next = @ + 1]
    /\ UNCHANGED <<ui_state, vci_issuer, vci_issuer_key, directory, audit>>

\* save_vci_issuer: the upsert sets error and updated_at.
save_vci_issuer(rows, i, error) == [rows EXCEPT ![i] = [present |-> TRUE, error |-> error, fresh |-> TRUE]]

\* update_vci_issuers, lines 323-329: one finished issuer is counted and listed.
IssuerLoaded(st, meta) == add_issuer([st EXCEPT !.vci_issuer_loaded = @ + 1], meta)

\* The observer's note of a finished update.
Noted(a, i, outcome) ==
    [a EXCEPT !.fetched = IF outcome = "cached" THEN @ ELSE @ \cup {i},
              !.outcome[i] = IF outcome \in {"net_err", "bad_json"} THEN "failed" ELSE outcome]

\* update_vci_issuer returned Ok for in-flight update x of task t.
\* outcome: "cached" | "net_err" | "bad_json" | "ok"
IssuerFinish(t, x, outcome) ==
    /\ RefreshOnly
    /\ refresh[t].pc = "run"
    /\ x \in refresh[t].inflight
    /\ (outcome = "cached") = x.cached
    /\ refresh' = [refresh EXCEPT ![t].inflight = @ \ {x}]
    /\ audit' = Noted(audit, x.iss, outcome)
    /\ UNCHANGED directory
    /\ CASE outcome = "cached" ->
              /\ ui_state' = IssuerLoaded(ui_state, VciIssuerMeta(x.iss, x.error, x.keys))
              /\ UNCHANGED <<vci_issuer, vci_issuer_key>>
         [] outcome \in {"net_err", "bad_json"} ->
              /\ vci_issuer' = save_vci_issuer(vci_issuer, x.iss, TRUE)
              /\ ui_state' = IssuerLoaded(ui_state, VciIssuerMeta(x.iss, TRUE, x.keys))
              /\ UNCHANGED vci_issuer_key
         [] outcome = "ok" ->
              /\ vci_issuer' = save_vci_issuer(vci_issuer, x.iss, FALSE)
              /\ vci_issuer_key' = [vci_issuer_key EXCEPT ![x.iss] = @ \cup RemoteKeys(x.iss)]
              /\ ui_state' = IssuerLoaded(ui_state,
                                VciIssuerMeta(x.iss, FALSE, Cardinality(RemoteKeys(x.iss))))

\* A store operation of update_vci_issuer failed: try_next()? returns the
\* error out of update_vci_issuers and the remaining updates are dropped.
IssuerStoreErr(t, x) ==
    /\ RefreshOnly
    /\ refresh[t].pc = "run"
    /\ x \in refresh[t].inflight
    /\ refresh' = [refresh EXCEPT ![t].pc = "done", ![t].result = "err", ![t].inflight = {}]
    /\ UNCHANGED <<ui_state, vci_issuer, vci_issuer_key, directory, audit>>

\* update_vci_issuer, line 415: the JWKS holds a key without a kid and
\* key_id.as_deref().unwrap() panics.  The transaction begun at line 410 is
\* rolled back when it is dropped; the task dies inside update_vci_issuers
\* and sends nothing.
IssuerPanic(t, x) ==
    /\ RefreshOnly
    /\ refresh[t].pc = "run"
    /\ x \in refresh[t].inflight
    /\ ~x.cached
    /\ refresh' = [refresh EXCEPT ![t].pc = "panicked", ![t].inflight = {}]
    /\ audit' = [audit EXCEPT !.fetched = @ \cup {x.iss}]
    /\ UNCHANGED <<ui_state, vci_issuer, vci_issuer_key, directory>>

\* update_vci_issuers, lines 331-334: the stream is exhausted.
RefreshFinish(t) ==
    /\ RefreshOnly
    /\ refresh[t].pc = "run"
    /\ refresh[t].next > directory
    /\ refresh[t].inflight = {}
    /\ ui_state' = [ui_state EXCEPT !.vci_issuers_loading = FALSE]
    /\ refresh' = [refresh EXCEPT ![t].pc = "done", ![t].result = "ok"]
    /\ UNCHANGED <<vci_issuer, vci_issuer_key, directory, audit>>

\* Rows older than 7 days are stale.
Aged(rows) == [i \in Issuers |-> [rows[i] EXCEPT !.fresh = FALSE]]

\* The program is started again after the refresh of the last run ended:
\* SmartHealthCardDecoder::new calls refresh_vci(false) against the tables
\* the last run left, at once or more than 7 days later.
Restart(later) ==
    /\ RefreshOnly
    /\ audit.run < MaxRuns
    /\ \A t \in Tasks : refresh[t].pc \in {"idle", "done", "panicked"}
    /\ ui_state' = UiStateDefault
    /\ refresh' = [t \in Tasks |-> IF t = 1 THEN [IdleTask EXCEPT !.pc = "guard"] ELSE IdleTask]
    /\ vci_issuer' = IF later THEN Aged(vci_issuer) ELSE vci_issuer
    /\ audit' = AuditOf(audit.run + 1, ~later /\ refresh[1].result = "ok",
                        vci_issuer', vci_issuer_key)
    /\ UNCHANGED <<vci_issuer_key, directory>>

RefreshNext ==
    \/ ClickRefresh
    \/ \E t \in Tasks : GuardCheck(t)
    \/ \E t \in Tasks : FetchListOk(t)
    \/ \E t \in Tasks : FetchListErr(t)
    \/ \E t \in Tasks : IssuerStart(t)
    \/ \E t \in Tasks : \E x \in refresh[t].inflight :
            \E outcome \in {"cached", "net_err", "bad_json", "ok"} : IssuerFinish(t, x, outcome)
    \/ \E t \in Tasks : \E x \in refresh[t].inflight : IssuerStoreErr(t, x)
    \/ \E t \in Tasks : \E x \in refresh[t].inflight : IssuerPanic(t, x)
    \/ \E t \in Tasks : RefreshFinish(t)

\* The steps of a program whose refreshes are the ones made at start.
DirectoryNext ==
    \/ GuardCheck(1)
    \/ FetchListOk(1)
    \/ FetchListErr(1)
    \/ IssuerStart(1)
    \/ \E x \in refresh[1].inflight :
            \E outcome \in {"cached", "net_err", "bad_json", "ok"} : IssuerFinish(1, x, outcome)
    \/ \E x \in refresh[1].inflight : IssuerStoreErr(1, x)
    \/ \E x \in refresh[1].inflight : IssuerPanic(1, x)
    \/ RefreshFinish(1)
    \/ \E later \in BOOLEAN : Restart(later)

\* decode, lines 696-735, for a card whose kid is unknown while its
\* issuer's row is fresh: update_vci_issuer answers from the row without a
\* request or a write, and add_issuer puts the answer on the list.  One
\* such entry at a time is on the list.
DecodeAddIssuer(i) ==
    /\ RefreshOnly
    /\ i \in 1..directory
    /\ vci_issuer[i].present /\ vci_issuer[i].fresh
    /\ Len(ui_state.vci_issuers) <= ui_state.vci_issuer_loaded
    /\ ui_state' = add_issuer(ui_state, VciIssuerMeta(i, vci_issuer[i].error,
                                                     Cardinality(vci_issuer_key[i])))
    /\ UNCHANGED <<refresh, vci_issuer, vci_issuer_key, directory, audit>>

ProgressNext ==
    \/ DirectoryNext
    \/ \E i \in Issuers : DecodeAddIssuer(i)

RefreshParked ==
    /\ directory = NumIssuers
    /\ ui_state = UiStateDefault
    /\ refresh = [t \in Tasks |-> IdleTask]
    /\ vci_issuer = [i \in Issuers |-> NoRow]
    /\ vci_issuer_key = [i \in Issuers |-> {}]
    /\ audit = AuditOf(1, FALSE, vci_issuer, vci_issuer_key)

\* A refresh is past the guard from the moment the check let it through
\* until update_vci_issuers returns.
PastGuard(t) == refresh[t].pc \in {"fetch", "run"}

\* C1: single-flight -- at most one refresh is past the in-progress guard at
\* any time (a request arriving while another refresh is fetching the issuer
\* list or updating issuers does nothing).
C1_SingleFlight == Cardinality({t \in Tasks : PastGuard(t)}) <= 1

\* C15: an issuer row with error=true has no key rows (key rows exist only
\* for issuers whose last refresh succeeded).
C15_NoKeysForFailedIssuer ==
    \A i \in Issuers :
        (vci_issuer[i].present /\ vci_issuer[i].error) => vci_issuer_key[i] = {}

\* The issuers the directory lists.
Listed == 1..directory

\* The refresh ended: it returned or its task died.
Ended(t) == refresh[t].pc \in {"done", "panicked"}

\* The rows an issuer has after an update that ended as noted.
RowAfter(i, outcome) ==
    CASE outcome = "cached" -> audit.rows0[i]
      [] outcome = "failed" -> [present |-> TRUE, error |-> TRUE, fresh |-> TRUE]
      [] outcome = "ok" -> [present |-> TRUE, error |-> FALSE, fresh |-> TRUE]
      [] OTHER -> audit.rows0[i]

KeysAfter(i, outcome) ==
    IF outcome = "ok" THEN audit.keys0[i] \cup RemoteKeys(i) ELSE audit.keys0[i]

\* Whatever the order of completion, the tables are the ones the noted
\* outcomes determine.
SameRowsForEveryOrder ==
    \A i \in Listed :
        /\ audit.outcome[i] # "none"
        /\ vci_issuer[i] = RowAfter(i, audit.outcome[i])
        /\ vci_issuer_key[i] = KeysAfter(i, audit.outcome[i])

\* C16: at most 4 per-issuer updates are in flight; a refresh in which no
\* store operation failed processes and persists every listed issuer; the
\* final rows are the same for every order of completion.
C16_BoundedAndComplete ==
    /\ \A t \in Tasks : Cardinality(refresh[t].inflight) <= 4
    /\ (Ended(1) /\ refresh[1].result # "err" /\ refresh[1].result # "skipped")
          => /\ \A i \in Listed : vci_issuer[i].present
             /\ SameRowsForEveryOrder

\* The part of C16 that holds: the bound, and completeness and determinacy
\* of a refresh that returned Ok.
DirectoryProcessedWhenFinished ==
    /\ \A t \in Tasks : Cardinality(refresh[t].inflight) <= 4
    /\ (refresh[1].pc = "done" /\ refresh[1].result = "ok")
          => /\ \A i \in Listed : vci_issuer[i].present
             /\ SameRowsForEveryOrder

\* Four updates are in flight and a fifth issuer waits for a slot.
DirectoryLimitBinds ==
    /\ Cardinality(refresh[1].inflight) = 4
    /\ refresh[1].next <= directory

\* C17: a refresh that respects the cache and runs at once after a refresh
\* that succeeded writes no issuer row and no key row and requests no JWKS.
C17_FreshRefreshIsNoOp ==
    (audit.run > 1 /\ audit.follows_ok) =>
        /\ vci_issuer = audit.rows0
        /\ vci_issuer_key = audit.keys0
        /\ audit.fetched = {}
        /\ \A x \in refresh[1].inflight : x.cached
        /\ \A i \in Listed : audit.outcome[i] \in {"none", "cached"}

\* The second run went through the whole directory and returned Ok.
C17_Witness ==
    /\ audit.run = 2
    /\ audit.follows_ok
    /\ ~refresh[1].ignore_cache
    /\ refresh[1].pc = "done"
    /\ refresh[1].result = "ok"
    /\ ui_state.vci_issuer_loaded = directory
    /\ \E i \in Listed : audit.rows0[i].error

\* C18: every refresh that sets the loading flag clears it in the end.
\* Nothing but a running refresh clears the flag, and the button that
\* starts one is hidden while it is set: a state with the flag set and no
\* refresh running is one from which it is never cleared.
C18_FlagCleared ==
    ui_state.vci_issuers_loading => \E t \in Tasks : refresh[t].pc = "run"

\* C19: an issuer whose JWKS request failed or was not valid JSON is
\* persisted with error=true and reported with error=true and zero keys,
\* and the refresh goes on.
C19_FailedIssuerReported ==
    [][\A t \in Tasks : \A x \in refresh[t].inflight : \A outcome \in {"net_err", "bad_json"} :
          IssuerFinish(t, x, outcome) =>
              /\ vci_issuer'[x.iss].present
              /\ vci_issuer'[x.iss].error
              /\ ui_state' = IssuerLoaded(ui_state, VciIssuerMeta(x.iss, TRUE, 0))
              /\ refresh'[t].pc = "run"]_vars

\* What C20 says of a step in which the list fetch of refresh t fails.
ListFailureIsClean(t) ==
    FetchListErr(t) =>
        /\ refresh'[t].pc = "done"
        /\ refresh'[t].result = "err"
        /\ refresh'[t].inflight = {}
        /\ refresh'[t].next = 1
        /\ UNCHANGED <<vci_issuer, vci_issuer_key>>
        /\ audit'.fetched = audit.fetched
        /\ ~ui_state'.vci_issuers_loading

\* C20: a failure to fetch or parse the issuer list ends the refresh with
\* one reported error, no row written, no per-issuer fetch, and the
\* loading flag false afterwards.
C20_ListFailure == [][\A t \in Tasks : ListFailureIsClean(t)]_vars

\* C20 for a refresh that runs alone.
ListFailureAlone == [][ListFailureIsClean(1)]_vars

\* The update a step of IssuerStart put in flight.
Started(t) == CHOOSE x \in refresh'[t].inflight : x \notin refresh[t].inflight

\* C27: a per-issuer update that respects the cache and finds a row
\* updated within 7 days requests nothing, writes nothing and returns the
\* stored key count and error flag; with the cache ignored, a stale row or
\* no row it requests the JWKS.
C27_CacheRule ==
    [][\A t \in Tasks :
          /\ IssuerStart(t) =>
                LET i == refresh[t].next
                    x == Started(t)
                IN  /\ x.iss = i
                    /\ x.cached = (vci_issuer[i].present /\ vci_issuer[i].fresh
                                      /\ ~refresh[t].ignore_cache)
                    /\ x.cached => /\ x.keys = Cardinality(vci_issuer_key[i])
                                   /\ x.error = vci_issuer[i].error
          /\ \A x \in refresh[t].inflight :
                /\ IssuerFinish(t, x, "cached") =>
                      /\ UNCHANGED <<vci_issuer, vci_issuer_key>>
                      /\ audit'.fetched = audit.fetched
                      /\ ui_state' = IssuerLoaded(ui_state, VciIssuerMeta(x.iss, x.error, x.keys))
                /\ \A outcome \in {"net_err", "bad_json", "ok"} :
                      IssuerFinish(t, x, outcome) => (~x.cached /\ x.iss \in audit'.fetched)]_vars

\* C27 happens: one issuer's row was fresh and its update was answered
\* from the cache, another's was stale and its JWKS was fetched.
C27_Witness ==
    /\ ~refresh[1].ignore_cache
    /\ \E i, j \in Listed : /\ audit.rows0[i].present /\ audit.rows0[i].fresh
                             /\ audit.outcome[i] = "cached"
                             /\ audit.rows0[j].present /\ ~audit.rows0[j].fresh
                             /\ j \in audit.fetched
                             /\ audit.outcome[j] = "ok"

SortedByName(list) ==
    \A k \in 1..(Len(list) - 1) : list[k].name <= list[k + 1].name

\* C36: the counter stays between 0 and the total; while a refresh runs
\* the list holds one entry for each issuer counted, sorted by name; and
\* when a refresh has cleared the flag the counter equals the total.
C36_ProgressCounter ==
    /\ ui_state.vci_issuer_loaded \in 0..ui_state.vci_issuer_total
    /\ SortedByName(ui_state.vci_issuers)
    /\ ui_state.vci_issuers_loading =>
          /\ Len(ui_state.vci_issuers) = ui_state.vci_issuer_loaded
          /\ Cardinality({ui_state.vci_issuers[k].iss : k \in DOMAIN ui_state.vci_issuers})
                = ui_state.vci_issuer_loaded
    /\ (~ui_state.vci_issuers_loading /\ \E t \in Tasks : refresh[t].result = "ok") =>
          ui_state.vci_issuer_loaded = ui_state.vci_issuer_total

\* The counter and the flag alone behave as C36 says in a single refresh.
CounterWithinTotal ==
    /\ ui_state.vci_issuer_loaded \in 0..ui_state.vci_issuer_total
    /\ SortedByName(ui_state.vci_issuers)
    /\ (~ui_state.vci_issuers_loading /\ \E t \in Tasks : refresh[t].result = "ok") =>
          ui_state.vci_issuer_loaded = ui_state.vci_issuer_total

(***************************************************************************)
(* Scanner settings panel and its sessions                                 *)
(***************************************************************************)

\* Bounds of the model.
MaxTokens == 2
MaxQueue == 2

\* Device descriptors: a HID keyboard (usage id 6), a HID point-of-sale
\* scanner (another usage id) and a serial port.
Devices == {"hid_kbd", "hid_pos", "serial"}
None == "None"

\* What list_devices can return: nothing attached, the keyboard scanner
\* alone, or all three.
DeviceLists == {{}, {"hid_kbd"}, Devices}

Tokens == 1..MaxTokens

IsHid(d) == d \in {"hid_kbd", "hid_pos"}
IsSerial(d) == d = "serial"
UsageId(d) == IF d = "hid_kbd" THEN 6 ELSE 1

BaudRates == {0, 9600}
HidTypes == {"Keyboard", "Pos"}

NoConfig == [present |-> FALSE, baud_rate |-> 0, hid_type |-> "Keyboard", selected_device |-> None]

\* State::default()
SettingsDefault ==
    [devices |-> {}, baud_rate |-> 0, hid_type |-> "Keyboard", selected_device |-> None,
     connected_scanner_token |-> 0, saved_config |-> NoConfig]

\* State::saved
saved(st) ==
    [present |-> TRUE, baud_rate |-> st.baud_rate, hid_type |-> st.hid_type,
     selected_device |-> st.selected_device]

\* State::is_connected
is_connected(st) == st.connected_scanner_token # 0

\* State::can_connect
can_connect(st) ==
    \/ IsSerial(st.selected_device) /\ st.baud_rate > 0
    \/ IsHid(st.selected_device)

\* An action on the channel.  sync: sent from the UI thread (a click or a
\* handler), so the drain loop of the next update() consumes it before the
\* panel is drawn again.  cause: what set the chain of actions off.
Act(type, devs, ok, cause, sync) ==
    [type |-> type, devs |-> devs, ok |-> ok, cause |-> cause, sync |-> sync]

\* StateWorker::send
WorkerSend(q, a) == Append(q, a)

\* The panel is drawn after update() drained the channel: nothing a click
\* or a handler sent is still waiting.
Drawn == \A k \in 1..Len(queue) : ~queue[k].sync

ConnectsQueued == Cardinality({k \in 1..Len(queue) : queue[k].type = "ConnectDevice"})
TokensUsed == Cardinality({t \in Tokens : sessions[t] # "unused"})
Room == Len(queue) < MaxQueue

\* Application::restore puts the configuration file's scanner section in
\* saved_config; show_ui sends ReloadDevices before the first frame.
UiInit ==
    /\ \E cfg \in {NoConfig} \cup
            {[present |-> TRUE, baud_rate |-> b, hid_type |-> "Keyboard", selected_device |-> d] :
                b \in {9600}, d \in {None, "hid_kbd", "serial"}} :
          settings = [SettingsDefault EXCEPT !.saved_config = cfg]
    /\ queue = <<Act("ReloadDevices", {}, TRUE, "startup", TRUE)>>
    /\ sessions = [t \in Tokens |-> "unused"]
    /\ cancelled = {}
    /\ reloads = <<>>

UiParked ==
    /\ settings = SettingsDefault
    /\ queue = <<>>
    /\ sessions = [t \in Tokens |-> "unused"]
    /\ cancelled = {}
    /\ reloads = <<>>

\* ---- the handlers of BarcodeSettings::update ----

\* Action::ReloadDevices
OnReloadDevices(a, q) ==
    /\ reloads' = Append(reloads, a.cause)
    /\ queue' = q
    /\ UNCHANGED <<settings, sessions, cancelled>>

\* Action::LoadedDevices, with a saved configuration waiting
LoadedWithConfig(st, devs) ==
    LET cfg == st.saved_config
        found == cfg.selected_device # None /\ cfg.selected_device \in devs
    IN  [st EXCEPT !.devices = devs,
                   !.saved_config = NoConfig,
                   !.baud_rate = cfg.baud_rate,
                   !.hid_type = cfg.hid_type,
                   !.selected_device = IF found THEN cfg.selected_device ELSE @]

\* Action::LoadedDevices, without one
LoadedWithoutConfig(st, devs) ==
    [st EXCEPT !.devices = devs,
               !.selected_device = IF @ # None /\ @ \notin devs THEN None ELSE @]

\* Whether the LoadedDevices handler sends ConnectDevice.
LoadedConnects(st, devs) ==
    /\ st.saved_config.present
    /\ st.saved_config.selected_device # None
    /\ st.saved_config.selected_device \in devs

OnLoadedDevices(a, q) ==
    /\ settings' = IF settings.saved_config.present
                   THEN LoadedWithConfig(settings, a.devs)
                   ELSE LoadedWithoutConfig(settings, a.devs)
    /\ queue' = IF LoadedConnects(settings, a.devs)
                THEN WorkerSend(q, Act("ConnectDevice", {}, TRUE, a.cause, TRUE))
                ELSE q
    /\ UNCHANGED <<sessions, cancelled, reloads>>

\* Action::SelectedDevice(Some(device)); the device is the one the combo
\* box put in selected_device.
OnSelectedDevice(a, q) ==
    /\ settings' = IF a.devs = {} THEN settings
                   ELSE LET d == CHOOSE x \in a.devs : TRUE
                        IN  IF IsHid(d)
                            THEN [settings EXCEPT !.hid_type = IF UsageId(d) = 6 THEN "Keyboard" ELSE "Pos"]
                            ELSE settings
    /\ queue' = q
    /\ UNCHANGED <<sessions, cancelled, reloads>>

\* CancellationToken::new(): the first token not handed out yet.
NewToken == CHOOSE t \in Tokens : sessions[t] = "unused" /\ \A u \in Tokens : u < t => sessions[u] # "unused"

\* Action::ConnectDevice
OnConnectDevice(a, q) ==
    /\ queue' = q
    /\ IF settings.selected_device = None
       THEN UNCHANGED <<settings, sessions>>
       ELSE /\ settings' = [settings EXCEPT !.connected_scanner_token = NewToken]
            /\ sessions' = [sessions EXCEPT ![NewToken] = "running"]
    /\ UNCHANGED <<cancelled, reloads>>

\* connected_scanner_token.take() and token.cancel()
TakeAndCancel ==
    /\ settings' = [settings EXCEPT !.connected_scanner_token = 0]
    /\ cancelled' = IF is_connected(settings)
                    THEN cancelled \cup {settings.connected_scanner_token}
                    ELSE cancelled

\* Action::DisconnectDevice
OnDisconnectDevice(a, q) ==
    /\ TakeAndCancel
    /\ queue' = q
    /\ UNCHANGED <<sessions, reloads>>

\* Action::ScannedBarcode(Err(_))
OnScannedErr(a, q) ==
    /\ TakeAndCancel
    /\ queue' = WorkerSend(q, Act("ReloadDevices", {}, TRUE, "error", TRUE))
    /\ UNCHANGED <<sessions, reloads>>

\* Action::ScannedBarcode(Ok(_))
OnScannedOk(a, q) ==
    /\ queue' = q
    /\ UNCHANGED <<settings, sessions, cancelled, reloads>>

\* App::update: the drain loop takes the oldest action and applies it.
ProcessAction ==
    /\ UiOnly
    /\ queue # <<>>
    /\ LET a == Head(queue)
           q == Tail(queue)
       IN  /\ (a.type = "ConnectDevice" /\ settings.selected_device # None) => TokensUsed < MaxTokens
           /\ CASE a.type = "ReloadDevices" -> OnReloadDevices(a, q)
                [] a.type = "LoadedDevices" -> OnLoadedDevices(a, q)
                [] a.type = "SelectedDevice" -> OnSelectedDevice(a, q)
                [] a.type = "ConnectDevice" -> OnConnectDevice(a, q)
                [] a.type = "DisconnectDevice" -> OnDisconnectDevice(a, q)
                [] a.type = "ScannedBarcode" /\ ~a.ok -> OnScannedErr(a, q)
                [] a.type = "ScannedBarcode" /\ a.ok -> OnScannedOk(a, q)

\* The list_devices task of a ReloadDevices finishes with the devices that
\* are attached at that moment.
ListDevicesDone(devs) ==
    /\ UiOnly
    /\ reloads # <<>>
    /\ Room
    /\ queue' = WorkerSend(queue, Act("LoadedDevices", devs, TRUE, Head(reloads), FALSE))
    /\ reloads' = Tail(reloads)
    /\ UNCHANGED <<settings, sessions, cancelled>>

\* ---- render: what the user can do in a drawn panel ----

\* settings_grid, Devices combo box (enabled while not connected).
UserSelect(d) ==
    /\ UiOnly
    /\ Drawn /\ Room
    /\ ~is_connected(settings)
    /\ d \in settings.devices \cup {None}
    /\ d # settings.selected_device
    /\ settings' = [settings EXCEPT !.selected_device = d]
    /\ queue' = IF d = None THEN queue
                ELSE WorkerSend(queue, Act("SelectedDevice", {d}, TRUE, "user", TRUE))
    /\ UNCHANGED <<sessions, cancelled, reloads>>

\* settings_grid, HID Type combo box.
UserSetHidType(h) ==
    /\ UiOnly
    /\ Drawn
    /\ ~is_connected(settings)
    /\ IsHid(settings.selected_device)
    /\ h # settings.hid_type
    /\ settings' = [settings EXCEPT !.hid_type = h]
    /\ UNCHANGED <<queue, sessions, cancelled, reloads>>

\* settings_grid, Baud Rate combo box.
UserSetBaudRate(b) ==
    /\ UiOnly
    /\ Drawn
    /\ ~is_connected(settings)
    /\ IsSerial(settings.selected_device)
    /\ b # settings.baud_rate /\ b > 0
    /\ settings' = [settings EXCEPT !.baud_rate = b]
    /\ UNCHANGED <<queue, sessions, cancelled, reloads>>

\* render: the Connect button.
UserConnect ==
    /\ UiOnly
    /\ Drawn /\ Room
    /\ ~is_connected(settings)
    /\ can_connect(settings)
    /\ TokensUsed + ConnectsQueued < MaxTokens
    /\ queue' = WorkerSend(queue, Act("ConnectDevice", {}, TRUE, "user", TRUE))
    /\ UNCHANGED <<settings, sessions, cancelled, reloads>>

\* render: the Disconnect button.
UserDisconnect ==
    /\ UiOnly
    /\ Drawn /\ Room
    /\ is_connected(settings)
    /\ queue' = WorkerSend(queue, Act("DisconnectDevice", {}, TRUE, "user", TRUE))
    /\ UNCHANGED <<settings, sessions, cancelled, reloads>>

\* render: the "Reload device list" button.
UserReload ==
    /\ UiOnly
    /\ Drawn /\ Room
    /\ reloads = <<>>
    /\ queue' = WorkerSend(queue, Act("ReloadDevices", {}, TRUE, "user", TRUE))
    /\ UNCHANGED <<settings, sessions, cancelled, reloads>>

\* Application::save_config (File > Save Settings, or the shortcut).
save_config ==
    /\ UiOnly
    /\ Drawn
    /\ settings' = [settings EXCEPT !.saved_config = saved(settings)]
    /\ UNCHANGED <<queue, sessions, cancelled, reloads>>

\* ---- the sessions, as the panel sees them through the stream ----

\* The engine flushed a message: ScannedBarcode(Ok(..)) reaches the channel.
SessionScan(t) ==
    /\ UiOnly
    /\ sessions[t] = "running"
    /\ Room
    /\ queue' = WorkerSend(queue, Act("ScannedBarcode", {}, TRUE, "device", FALSE))
    /\ UNCHANGED <<settings, sessions, cancelled, reloads>>

\* start_scanner sent the transport error and the session is over.
SessionError(t) ==
    /\ UiOnly
    /\ sessions[t] = "running"
    /\ Room
    /\ sessions' = [sessions EXCEPT ![t] = "ended"]
    /\ queue' = WorkerSend(queue, Act("ScannedBarcode", {}, FALSE, "device", FALSE))
    /\ UNCHANGED <<settings, cancelled, reloads>>

\* The engine saw its token cancelled and left the loop.
SessionCancelled(t) ==
    /\ UiOnly
    /\ sessions[t] = "running"
    /\ t \in cancelled
    /\ sessions' = [sessions EXCEPT ![t] = "ended"]
    /\ UNCHANGED <<queue, settings, cancelled, reloads>>

UiNext ==
    \/ ProcessAction
    \/ \E devs \in DeviceLists : ListDevicesDone(devs)
    \/ \E d \in Devices \cup {None} : UserSelect(d)
    \/ \E h \in HidTypes : UserSetHidType(h)
    \/ \E b \in BaudRates : UserSetBaudRate(b)
    \/ UserConnect
    \/ UserDisconnect
    \/ UserReload
    \/ save_config
    \/ \E t \in Tokens : SessionScan(t)
    \/ \E t \in Tokens : SessionError(t)
    \/ \E t \in Tokens : SessionCancelled(t)

\* A session is live while it runs and nobody cancelled its token.
Live(t) == sessions[t] = "running" /\ t \notin cancelled

\* C2: at most one scanner session is live, and a live session's token is
\* the one held in connected_scanner_token.
C2_OneLiveSession == \A t \in Tokens : Live(t) => settings.connected_scanner_token = t

\* C8: after a session ended with a transport error the application never
\* issues ConnectDevice by itself: no ConnectDevice on the channel descends
\* from the ReloadDevices that the ScannedBarcode(Err) handler sent.
C8_NoAutoReconnect == \A k \in 1..Len(queue) : ~(queue[k].type = "ConnectDevice" /\ queue[k].cause = "error")

(***************************************************************************)
(* Framing engines (barcode_scanner.rs)                                    *)
(*                                                                         *)
(* One scan session: start_scanner spawns one of hid_scanner_keyboard,     *)
(* hid_scanner_pos, serial_scanner.  Text is a sequence of code points.    *)
(* Time is counted in milliseconds and advances in steps of TimeStep; a    *)
(* report is handled at the moment it arrives.                             *)
(***************************************************************************)

\* Bounds of the model.
MaxReports == 2
TimeStep == 25

\* The idle period of the keyboard and serial engines.
IdleMs == 50

\* The capacity of the session's output channel.
ChannelCapacity == 1

\* The report buffer of the POS engine and the declared length of a report
\* that continues in the next one.
PosBufLen == 64
PosContinues == 63

Transports == {"Keyboard", "Pos", "Serial"}

\* KEY_LOOKUP: keycode -> character (as a code point); 0 stands for None.
KEY_LOOKUP(k) ==
    IF k \in 4..29 THEN 97 + (k - 4)
    ELSE IF k \in 30..38 THEN 49 + (k - 30)
    ELSE IF k = 39 THEN 48
    ELSE IF k = 40 THEN 10
    ELSE 0

\* ModifierKeys: the bit of each shift key in the modifier byte.
ShiftLeft == 2
ShiftRight == 32

\* BitFlags::contains(flags): every bit of flags is set in m.
HasBit(m, b) == (m \div b) % 2 = 1
contains(m, flags) == \A b \in flags : HasBit(m, b)

\* char::to_ascii_uppercase.
to_ascii_uppercase(c) == IF c \in 97..122 THEN c - 32 ELSE c

\* The case the keyboard engine gives a character under modifier byte m.
KbdCase(m, c) ==
    IF contains(m, {ShiftLeft, ShiftRight}) THEN to_ascii_uppercase(c) ELSE c

\* The loop over &buf[2..size]: zero and unknown keycodes are skipped, the
\* others are pushed in slot order.
RECURSIVE KbdPush(_, _)
KbdPush(m, keys) ==
    IF keys = <<>> THEN <<>>
    ELSE LET key == KEY_LOOKUP(Head(keys))
         IN  IF Head(keys) = 0 \/ key = 0 THEN KbdPush(m, Tail(keys))
             ELSE <<KbdCase(m, key)>> \o KbdPush(m, Tail(keys))

\* What one keyboard report of `size` bytes appends to inp; buf[0] is r[1].
KbdAppend(r) == KbdPush(r[1], SubSeq(r, 3, Len(r)))

\* &buf[2..size] panics when size < 2.
KbdPanics(r) == Len(r) < 2

\* String::from_utf8_lossy on bytes below 0xE0: ASCII is kept, a lead byte
\* 0xC2..0xDF with its continuation byte 0x80..0xBF becomes their code
\* point, any other byte becomes U+FFFD.  Lead and continuation ranges are
\* disjoint, so a byte is the second of a pair exactly when it is a
\* continuation byte that follows a lead byte.
IsLead(b) == b \in 194..223
IsContinuation(b) == b \in 128..191
SecondOfPair(bytes, k) == k > 1 /\ IsContinuation(bytes[k]) /\ IsLead(bytes[k - 1])
FirstOfPair(bytes, k) == k < Len(bytes) /\ IsLead(bytes[k]) /\ IsContinuation(bytes[k + 1])
from_utf8_lossy(bytes) ==
    LET starts == SelectSeq([k \in 1..Len(bytes) |-> k],
                            LAMBDA k : ~SecondOfPair(bytes, k))
        decode(k) == IF bytes[k] < 128 THEN bytes[k]
                     ELSE IF FirstOfPair(bytes, k)
                          THEN (bytes[k] - 192) * 64 + (bytes[k + 1] - 128)
                          ELSE 65533
    IN  [j \in 1..Len(starts) |-> decode(starts[j])]

\* &buf[lo..=hi] of the POS report buffer; it panics when hi is outside the
\* buffer or lo is past hi + 1.
SlicePanics(lo, hi) == hi >= PosBufLen \/ lo > hi + 1
Slice(buf, lo, hi) == [k \in 1..(hi - lo + 1) |-> buf[lo + k - 1]]

\* A reading of the POS engine under which every report is cut like a
\* continuation.
PosSkipOne(inp_is_empty) == 1

\* The first index of the useful bytes of a POS report.
PosSkip(inp_is_empty) == IF inp_is_empty THEN 3 ELSE 1

\* ---- the inputs of the model ----

\* Keyboard reports: modifier byte, reserved byte, key slots.
KbdMods == {0, ShiftLeft, ShiftRight, ShiftLeft + ShiftRight}
KbdReports ==
    {<<m, 0, 4, 30, 0, 0, 0, 0>> : m \in KbdMods}
        \cup {<<0, 0, 0, 5, 0, 0, 0, 40>>, <<0, 0, 99, 4, 0, 0, 0, 0>>}
        \cup {<<>>, <<0>>, <<0, 0>>, <<ShiftLeft, 0, 5>>}

\* POS reports: a full buffer whose byte 0 is the declared length; the
\* other bytes are data that depends on the position.
PosLens == {0, 1, 2, 4, PosContinues, PosBufLen}
PosReport(len, c) == [p \in 0..(PosBufLen - 1) |-> IF p = 0 THEN len ELSE c + (p % 5)]
PosReports == {PosReport(len, c) : len \in PosLens, c \in {65, 190}}

\* Serial reads: the bytes one read returned.
SerialChunks == {<<>>, <<65>>, <<66, 10>>, <<200>>, <<200, 169>>}

\* ---- channel items ----
OkItem(msg) == [ok |-> TRUE, msg |-> msg]
ErrItem == [ok |-> FALSE, msg |-> <<>>]

\* The record of what the session did, kept beside the program's state.
ObsInit ==
    [reads |-> 0,         \* reports read so far
     sinceInput |-> IdleMs, \* ms since the last report that reset the timer
     typed |-> <<>>,      \* what the reports since the last flush encode
     burst |-> 0,         \* reports read since the last flush
     lastRead |-> <<>>,   \* the last report handled and what it appended
     lastFlush |-> <<>>,  \* the last flush: message, typed, idle gap
     lastSent |-> <<>>,   \* the last item handed to send()
     nOk |-> 0,           \* Ok items handed to send()
     nErr |-> 0,          \* Err items handed to send()
     nTerminal |-> 0,     \* POS reports read whose length is not 63
     errAt |-> -1,        \* nOk when the transport failed, -1 before
     sent |-> <<>>,       \* the flushes in order: message, typed, reads covered
     received |-> <<>>]   \* the items the consumer took, in order

EngineInit ==
    /\ transport \in Transports
    /\ pc = "open"
    /\ inp = <<>>
    /\ chan = <<>>
    /\ pending = <<>>
    /\ rx_closed = FALSE
    /\ token_cancelled = FALSE
    /\ timerLeft = 0
    /\ obs = ObsInit

EngineParked ==
    /\ transport = "None"
    /\ pc = "done"
    /\ inp = <<>>
    /\ chan = <<>>
    /\ pending = <<>>
    /\ rx_closed = FALSE
    /\ token_cancelled = FALSE
    /\ timerLeft = 0
    /\ obs = ObsInit

\* tx.send(item) is called: the item is pending until the channel takes it.
SendCalled(o, item) ==
    [o EXCEPT !.lastSent = <<[item |-> item, afterCancel |-> token_cancelled]>>,
              !.nOk = IF item.ok THEN @ + 1 ELSE @,
              !.nErr = IF item.ok THEN @ ELSE @ + 1]

\* A flush: the buffer is sent as one message.
Flushed(o, msg) ==
    [SendCalled(o, OkItem(msg)) EXCEPT
        !.lastFlush = <<[msg |-> msg, typed |-> o.typed, gap |-> o.sinceInput]>>,
        !.sent = Append(@, [msg |-> msg, typed |-> o.typed,
                            first |-> o.reads - o.burst + 1, last |-> o.reads]),
        !.typed = <<>>,
        !.burst = 0]

\* A reading of the keyboard engine's timer under which a processed report
\* leaves the interval as it was.
TimerNotReset(left) == left

\* interval.reset(): the next tick is a full period away.
IntervalReset(left) == IdleMs

\* A reading of the error path under which the engine stays in its loop.
ErrorContinues == "select"

\* Where the session goes when the engine returns Err: start_scanner sends
\* the error on err_tx.
ErrorExit == "err_send"

\* A reading under which the POS engine has an interval as well.
EveryEngineTicks(t) == TRUE

\* The engines that create a tokio interval: the keyboard engine (line 228)
\* and the serial engine (line 377); hid_scanner_pos has none.
HasInterval(t) == t \in {"Keyboard", "Serial"}

\* The device was found and opened; tokio's interval ticks at once.
OpenOk ==
    /\ EngineOnly
    /\ pc = "open"
    /\ pc' = "select"
    /\ timerLeft' = 0
    /\ UNCHANGED <<transport, inp, chan, pending, rx_closed, token_cancelled, obs>>

\* The engine returns Err(err): the device is missing, cannot be opened, or
\* a read failed.  start_scanner calls err_tx.send(Err(err)).
EngineFails ==
    /\ pc' = ErrorExit
    /\ pending' = <<ErrItem>>
    /\ obs' = [SendCalled(obs, ErrItem) EXCEPT !.errAt = obs.nOk]
    /\ UNCHANGED <<transport, inp, chan, rx_closed, token_cancelled, timerLeft>>

OpenErr ==
    /\ EngineOnly
    /\ pc = "open"
    /\ EngineFails

ReadError ==
    /\ EngineOnly
    /\ pc = "select"
    /\ EngineFails

\* The tick branch of the keyboard and serial engines.
EngineTick ==
    /\ EngineOnly
    /\ HasInterval(transport)
    /\ pc = "select"
    /\ timerLeft = 0
    /\ timerLeft' = IdleMs
    /\ IF inp = <<>>
       THEN UNCHANGED <<pc, pending, obs>>
       ELSE /\ pc' = "sending"
            /\ pending' = <<OkItem(inp)>>
            /\ obs' = Flushed(obs, inp)
    /\ UNCHANGED <<transport, inp, chan, rx_closed, token_cancelled>>

\* A reading of the flush under which the buffer is kept after the send.
NotCleared(buf) == buf

\* inp.clear()
Cleared(buf) == <<>>

\* The channel takes the pending message; the engine clears its buffer.
SendDone ==
    /\ EngineOnly
    /\ pc = "sending"
    /\ ~rx_closed
    /\ Len(chan) < ChannelCapacity
    /\ chan' = chan \o pending
    /\ pending' = <<>>
    /\ inp' = Cleared(inp)
    /\ pc' = "select"
    /\ UNCHANGED <<transport, rx_closed, token_cancelled, timerLeft, obs>>

\* send() fails because the receiver is gone: the keyboard and serial
\* engines break, the POS engine unwraps the error.
SendFailed ==
    /\ EngineOnly
    /\ pc = "sending"
    /\ rx_closed
    /\ pending' = <<>>
    /\ pc' = IF transport = "Pos" THEN "panicked" ELSE "done"
    /\ UNCHANGED <<transport, inp, chan, rx_closed, token_cancelled, timerLeft, obs>>

\* err_tx.send(Err(err)) completes or fails; either way the task ends.
ErrSendDone ==
    /\ EngineOnly
    /\ pc = "err_send"
    /\ rx_closed \/ Len(chan) < ChannelCapacity
    /\ chan' = IF rx_closed THEN chan ELSE chan \o pending
    /\ pending' = <<>>
    /\ pc' = "done"
    /\ UNCHANGED <<transport, inp, rx_closed, token_cancelled, timerLeft, obs>>

\* The tx.closed() branch.
EngineClosed ==
    /\ EngineOnly
    /\ pc = "select"
    /\ rx_closed
    /\ pc' = "done"
    /\ UNCHANGED <<transport, inp, chan, pending, rx_closed, token_cancelled, timerLeft, obs>>

\* A reading of the cancelled() branch under which the loop goes on.
CancelledContinues ==
    /\ EngineOnly
    /\ pc = "select"
    /\ token_cancelled
    /\ UNCHANGED engineVars

\* The token.cancelled() branch.
EngineCancelled ==
    /\ EngineOnly
    /\ pc = "select"
    /\ token_cancelled
    /\ pc' = "done"
    /\ UNCHANGED <<transport, inp, chan, pending, rx_closed, token_cancelled, timerLeft, obs>>

\* The read branch of the keyboard engine.
KbdRead(r) ==
    /\ EngineOnly
    /\ transport = "Keyboard"
    /\ pc = "select"
    /\ obs.reads < MaxReports
    /\ IF KbdPanics(r)
       THEN /\ pc' = "panicked"
            /\ obs' = [obs EXCEPT !.reads = @ + 1]
            /\ UNCHANGED <<inp, timerLeft>>
       ELSE /\ inp' = inp \o KbdAppend(r)
            /\ timerLeft' = IntervalReset(timerLeft)
            /\ obs' = [obs EXCEPT
                          !.reads = @ + 1,
                          !.sinceInput = 0,
                          !.typed = @ \o KbdPush(0, SubSeq(r, 3, Len(r))),
                          !.burst = @ + 1,
                          !.lastRead = <<[report |-> r, appended |-> KbdAppend(r)]>>]
            /\ UNCHANGED pc
    /\ UNCHANGED <<transport, chan, pending, rx_closed, token_cancelled>>

\* The read branch of the POS engine.
PosRead(buf) ==
    /\ EngineOnly
    /\ transport = "Pos"
    /\ pc = "select"
    /\ obs.reads < MaxReports
    /\ LET data_len == buf[0]
           lo == PosSkip(inp = <<>>)
           terminal == IF data_len # PosContinues THEN 1 ELSE 0
           seen == [obs EXCEPT !.reads = @ + 1,
                               !.burst = @ + 1,
                               !.nTerminal = @ + terminal]
       IN  IF SlicePanics(lo, data_len)
           THEN /\ pc' = "panicked"
                /\ obs' = seen
                /\ UNCHANGED <<inp, pending>>
           ELSE LET useful_bytes == Slice(buf, lo, data_len)
                    expected == Slice(buf, PosSkip(obs.burst = 0), data_len)
                    read == [seen EXCEPT !.typed = @ \o expected]
                IN  /\ inp' = inp \o useful_bytes
                    /\ IF data_len # PosContinues
                       THEN /\ pc' = "sending"
                            /\ pending' = <<OkItem(from_utf8_lossy(inp'))>>
                            /\ obs' = Flushed(read, from_utf8_lossy(inp'))
                       ELSE /\ obs' = read
                            /\ UNCHANGED <<pc, pending>>
    /\ UNCHANGED <<transport, chan, rx_closed, token_cancelled, timerLeft>>

\* The read branch of the serial engine.
SerialRead(bytes) ==
    /\ EngineOnly
    /\ transport = "Serial"
    /\ pc = "select"
    /\ obs.reads < MaxReports
    /\ IF Len(bytes) = 0
       THEN /\ obs' = [obs EXCEPT !.reads = @ + 1]
            /\ UNCHANGED <<inp, timerLeft>>
       ELSE /\ inp' = inp \o from_utf8_lossy(bytes)
            /\ timerLeft' = IntervalReset(timerLeft)
            /\ obs' = [obs EXCEPT !.reads = @ + 1,
                                  !.sinceInput = 0,
                                  !.typed = @ \o bytes,
                                  !.burst = @ + 1]
    /\ UNCHANGED <<transport, pc, chan, pending, rx_closed, token_cancelled>>

\* Time passes while the engine waits in select or in send.
Advance ==
    /\ EngineOnly
    /\ HasInterval(transport)
    /\ pc \in {"select", "sending"}
    /\ timerLeft > 0 \/ obs.sinceInput < IdleMs
    /\ timerLeft' = IF timerLeft > TimeStep THEN timerLeft - TimeStep ELSE 0
    /\ obs' = [obs EXCEPT !.sinceInput = IF @ + TimeStep < IdleMs THEN @ + TimeStep ELSE IdleMs]
    /\ UNCHANGED <<transport, pc, inp, chan, pending, rx_closed, token_cancelled>>

\* The holder of the token cancels it (DisconnectDevice, ScannedBarcode(Err)).
Cancel ==
    /\ EngineOnly
    /\ ~token_cancelled
    /\ pc \notin {"done", "panicked"}
    /\ token_cancelled' = TRUE
    /\ UNCHANGED <<transport, pc, inp, chan, pending, rx_closed, timerLeft, obs>>

\* The consumer takes the item in the channel.
ConsumerRecv ==
    /\ EngineOnly
    /\ ~rx_closed
    /\ chan # <<>>
    /\ chan' = Tail(chan)
    /\ obs' = [obs EXCEPT !.received = Append(@, Head(chan))]
    /\ UNCHANGED <<transport, pc, inp, pending, rx_closed, token_cancelled, timerLeft>>

\* The consumer drops the receiver.
ConsumerClose ==
    /\ EngineOnly
    /\ ~rx_closed
    /\ rx_closed' = TRUE
    /\ chan' = <<>>
    /\ UNCHANGED <<transport, pc, inp, pending, token_cancelled, timerLeft, obs>>

EngineNext ==
    \/ OpenOk
    \/ OpenErr
    \/ ReadError
    \/ EngineTick
    \/ SendDone
    \/ SendFailed
    \/ ErrSendDone
    \/ EngineClosed
    \/ EngineCancelled
    \/ \E r \in KbdReports : KbdRead(r)
    \/ \E buf \in PosReports : PosRead(buf)
    \/ \E bytes \in SerialChunks : SerialRead(bytes)
    \/ Advance
    \/ Cancel
    \/ ConsumerRecv
    \/ ConsumerClose

\* ---- the claims about a scan session ----

LastItem == obs.lastSent[1].item
Upper(s) == [k \in DOMAIN s |-> to_ascii_uppercase(s[k])]
Terminated == pc \in {"done", "panicked"}

\* C3: no session hands an empty string to send() as an Ok message.
C3_NeverEmptyMessage ==
    obs.lastSent # <<>> => (LastItem.ok => LastItem.msg # <<>>)

\* C4: the keyboard engine flushes only after a full idle period without a
\* report, the flushed message is the whole text typed since the previous
\* flush (the mapped characters in report and key-slot order, zero keycodes
\* skipped, case aside), the buffer is empty afterwards, and while text is
\* buffered the tick is due exactly one idle period after the last report.
C4_KeyboardFraming ==
    transport = "Keyboard" =>
        /\ (pc = "select" /\ inp # <<>>) => timerLeft + obs.sinceInput = IdleMs
        /\ (pc = "select" /\ obs.burst = 0) => inp = <<>>
        /\ obs.lastFlush # <<>> =>
               /\ obs.lastFlush[1].gap >= IdleMs
               /\ obs.lastFlush[1].msg # <<>>
               /\ Upper(obs.lastFlush[1].msg) = Upper(obs.lastFlush[1].typed)

\* C4 happens: a text that took more than one report went out as one
\* message and the engine is back in its loop with an empty buffer.
C4_Witness ==
    /\ transport = "Keyboard"
    /\ pc = "select"
    /\ inp = <<>>
    /\ obs.lastFlush # <<>>
    /\ obs.burst = 0
    /\ Len(obs.lastFlush[1].msg) >= 3

\* C5: a report with the left-shift bit, the right-shift bit or both
\* appends its mapped characters in upper case, a report with neither
\* appends them in lower case.
C5_EitherShiftUppercases ==
    (transport = "Keyboard" /\ obs.lastRead # <<>>) =>
        LET r == obs.lastRead[1].report
            shifted == HasBit(r[1], ShiftLeft) \/ HasBit(r[1], ShiftRight)
            mapped == KbdPush(0, SubSeq(r, 3, Len(r)))
        IN  obs.lastRead[1].appended = IF shifted THEN Upper(mapped) ELSE mapped

\* C6: the POS engine has sent one message for each report read whose
\* declared length is not 63, each message is the payload of the reports
\* since the previous one, and the buffer is empty after an emission.
C6_PosFraming ==
    transport = "Pos" =>
        /\ obs.nOk = obs.nTerminal
        /\ (pc = "select" /\ obs.burst = 0) => inp = <<>>
        /\ obs.lastFlush # <<>> =>
               obs.lastFlush[1].msg = from_utf8_lossy(obs.lastFlush[1].typed)

\* The same framing property on the runs where no report made the engine
\* panic: there it holds.
PosFramingUnlessPanicked ==
    (transport = "Pos" /\ pc # "panicked") => C6_PosFraming

\* C7: once the transport failed, exactly one Err item was handed to
\* send(), it is the last item, no Ok message was sent since the failure
\* (the buffer is dropped), and the task only has its exit left.
C7_ErrorOnceThenStop ==
    /\ obs.errAt < 0 => obs.nErr = 0
    /\ obs.errAt >= 0 =>
           /\ pc \in {"err_send", "done"}
           /\ obs.nErr = 1
           /\ obs.nOk = obs.errAt
           /\ ~LastItem.ok
           /\ pc = "done" => pending = <<>>

\* C7 happens: a read failed while bytes were buffered; the Err item is in
\* the channel, the task is over and the bytes were never sent.
C7_Witness ==
    /\ obs.errAt >= 0
    /\ pc = "done"
    /\ inp # <<>>
    /\ chan = <<ErrItem>>

\* C9: the keyboard and serial engines hand no Ok message to send() after
\* the token was cancelled.
C9_NoSendAfterCancel ==
    (transport \in {"Keyboard", "Serial"} /\ obs.lastSent # <<>>) =>
        ~(LastItem.ok /\ obs.lastSent[1].afterCancel)

\* C10: after the token is cancelled the task eventually ends.
C10_CancelTerminates == token_cancelled ~> Terminated

\* C10 happens: the token is cancelled while the engine is in send() with
\* the channel full.
C10_Witness ==
    /\ token_cancelled
    /\ pc = "sending"
    /\ Len(chan) = ChannelCapacity
    /\ ~rx_closed

\* The Ok messages the consumer took, in the order it took them.
OkReceived == SelectSeq(obs.received, LAMBDA item : item.ok)

\* C24: the consumer receives the messages of a session in the order in
\* which their bytes were read: the messages received are the first
\* flushes in flush order, each flush covers reads later than every read
\* of the flush before it, and a keyboard message holds what the reads of
\* its own flush typed and nothing of another flush.
C24_CaptureOrder ==
    /\ Len(OkReceived) <= Len(obs.sent)
    /\ \A k \in DOMAIN OkReceived : OkReceived[k].msg = obs.sent[k].msg
    /\ \A k \in DOMAIN obs.sent : obs.sent[k].first <= obs.sent[k].last
    /\ \A k \in 1..(Len(obs.sent) - 1) : obs.sent[k].last < obs.sent[k + 1].first
    /\ transport = "Keyboard" =>
          \A k \in DOMAIN obs.sent : Upper(obs.sent[k].msg) = Upper(obs.sent[k].typed)

\* C24 happens: two different keyboard messages were flushed and received.
C24_Witness ==
    /\ transport = "Keyboard"
    /\ Len(OkReceived) = 2
    /\ OkReceived[1].msg # OkReceived[2].msg
    /\ OkReceived[2].msg = obs.sent[2].msg

\* The characters the key slots of a keyboard report map to.
Mapped(r) == SelectSeq(SubSeq(r, 3, Len(r)), LAMBDA k : KEY_LOOKUP(k) # 0)

\* C26: no content of an input report ends the session: after every
\* keyboard report and every POS report the engine is still running, and a
\* keyboard report adds one character for each mapped keycode and nothing
\* for the others.
C26_ReportsNeverEndSession ==
    [][/\ \A r \in KbdReports :
             KbdRead(r) => /\ pc' = "select"
                           /\ Len(inp') = Len(inp) + Len(Mapped(r))
       /\ \A buf \in PosReports :
             PosRead(buf) => pc' \in {"select", "sending"}]_vars

\* C33 as amended: a report is first exactly when no report was read since
\* the last emission or the start.  A first report with declared length L
\* in 2..63 appends the L - 2 bytes at offsets 3..L, a continuation report
\* with L up to 63 appends the L bytes at offsets 1..L; a report with any
\* other declared length panics the engine and appends nothing.
C33_PosPayload ==
    [][\A buf \in PosReports :
          PosRead(buf) =>
             LET L == buf[0]
                 first == obs.burst = 0
             IN  /\ first = (inp = <<>>)
                 /\ (pc' = "panicked") = (L >= PosBufLen \/ (first /\ L < 2))
                 /\ pc' = "panicked" => inp' = inp
                 /\ (pc' # "panicked" /\ first) => inp' = inp \o Slice(buf, 3, L)
                 /\ (pc' # "panicked" /\ ~first) => inp' = inp \o Slice(buf, 1, L)]_vars

\* C33 as stated: a first report appends L bytes and so does a
\* continuation report.
C33_AsStated ==
    [][\A buf \in PosReports :
          (PosRead(buf) /\ pc' # "panicked") => Len(inp') = Len(inp) + buf[0]]_vars

\* C33 happens: a first report of length 63 and a continuation report of
\* length 4 were read, and the buffer holds 61 and 4 bytes of them.
C33_Witness ==
    /\ transport = "Pos"
    /\ pc = "sending"
    /\ obs.reads = 2
    /\ Len(inp) = (PosContinues - 2) + 4

\* C34: in a POS session only a report whose declared length is not 63
\* starts an emission; a report of length 63 leaves the session waiting
\* with its payload buffered, no timer runs, and nothing but a report
\* changes the buffer while the engine waits; the report that ends the
\* wait is cut as a continuation and sent behind the buffered payload as
\* one message.
C34_NoTimerInPos ==
    [][transport = "Pos" =>
          /\ timerLeft' = timerLeft
          /\ (pc = "select" /\ (pc' = "sending" \/ inp' # inp)) =>
                \E buf \in PosReports : PosRead(buf)
          /\ \A buf \in PosReports :
                PosRead(buf) =>
                   /\ buf[0] = PosContinues =>
                         /\ pc' = "select"
                         /\ inp' # <<>>
                         /\ UNCHANGED <<pending, chan>>
                   /\ pc' = "sending" =>
                         /\ buf[0] # PosContinues
                         /\ inp # <<>> =>
                               pending' = <<OkItem(from_utf8_lossy(inp \o Slice(buf, 1, buf[0])))>>]_vars

\* C34 happens: the consumer received one message made of a report of
\* length 63 and the report after it.
C34_Witness ==
    /\ transport = "Pos"
    /\ Len(obs.received) = 1
    /\ obs.received[1].ok
    /\ obs.sent[1].first = 1
    /\ obs.sent[1].last = 2
    /\ Len(obs.received[1].msg) > PosContinues - 2

\* C35: the step with which an engine leaves its loop because the
\* consumer closed the channel, in the closed() branch or in a send that
\* fails, ends the task with Ok and hands no error item to the channel.
C35_CloseEndsCleanly ==
    [][(EngineClosed \/ SendFailed) =>
          /\ pc' = "done"
          /\ obs'.nErr = obs.nErr]_vars

\* The keyboard and serial engines end with Ok when the consumer closed.
TimedEnginesCloseCleanly ==
    [][(HasInterval(transport) /\ (EngineClosed \/ SendFailed)) => pc' = "done"]_vars

(***************************************************************************)
(* Decoder chain (barcode_decoders.rs and the decoders it holds)           *)
(*                                                                         *)
(* A scanned text is a sequence of tokens: leading white space, the SHC    *)
(* prefix, and a body that stands for one kind of content.                 *)
(***************************************************************************)

\* Flawed variant of decoders: Generic is consulted first.
GenericFirst == <<"Generic Data", "SMART Health Card", "AAMVA", "Link">>

\* BarcodeDecoders::new: the decoders in their fixed order, by name.
decoders == <<"SMART Health Card", "AAMVA", "Link", "Generic Data">>

DecoderNames == {decoders[k] : k \in DOMAIN decoders}

\* The bodies of the sampled inputs.
PlainBodies == {"1234567890", "https://a", "ftp://a", "@ANSI DL"}
PairBodies == {"card", "card_new_kid", "card_no_kid", "odd_length"}
Inputs ==
    {<<b>> : b \in PlainBodies}
        \cup {<<"shc:/", b>> : b \in PairBodies \cup {"1234567890"}}
        \cup {<<" ", "shc:/", b>> : b \in {"card", "odd_length"}}
        \cup {<<" ", "1234567890">>}

\* str::trim: leading and trailing white space is dropped.
RECURSIVE trim_start(_)
trim_start(text) ==
    IF text # <<>> /\ Head(text) = " " THEN trim_start(Tail(text)) ELSE text
RECURSIVE trim_end(_)
trim_end(text) ==
    IF text # <<>> /\ text[Len(text)] = " "
    THEN trim_end(SubSeq(text, 1, Len(text) - 1))
    ELSE text
trim(text) == trim_end(trim_start(text))

\* str::strip_prefix("shc:/"): the rest after the prefix, or None.
HasPrefix(text) == text # <<>> /\ Head(text) = "shc:/"
strip_prefix(text) == Tail(text)

\* SmartHealthCardDecoder::decode by stage.  The outcomes a call can have
\* and the store and network operations it performs on the way.
\*   decode_qr_data: the prefix, then the numeric pairs;
\*   the JWS header, the three parts, the claims and their iss;
\*   header.kid.unwrap(): a header without kid aborts the task;
\*   the key lookup, and when the kid is unknown the issuer's JWKS is
\*   fetched and the issuer saved; a store error there is returned.
ShcOutcomes(input) ==
    LET data == trim(input)
    IN  IF ~HasPrefix(data) THEN {"err"}
        ELSE LET body == strip_prefix(data)
             IN  IF body = <<"card">> THEN {"ok", "err"}
                 ELSE IF body = <<"card_new_kid">> THEN {"ok", "err"}
                 ELSE IF body = <<"card_no_kid">> THEN {"panic"}
                 ELSE {"err"}

ShcEffects(input) ==
    LET data == trim(input)
    IN  IF ~HasPrefix(data) THEN {}
        ELSE LET body == strip_prefix(data)
             IN  IF body = <<"card">> THEN {"key_lookup"}
                 ELSE IF body = <<"card_new_kid">>
                      THEN {"key_lookup", "fetch", "store_write"}
                      ELSE {}

\* AamvaDecoder::decode: aamva::parse_barcode accepts the text or not.
AamvaOutcomes(input) == IF input = <<"@ANSI DL">> THEN {"ok"} ELSE {"err"}

\* LinkDecoder::decode: the text parses as a URL (Url::parse drops the
\* white space around it) and the scheme is http or https.
LinkOutcomes(input) == IF trim(input) = <<"https://a">> THEN {"ok"} ELSE {"err"}

\* GenericDataDecoder::decode: always Ok.
GenericOutcomes(input) == {"ok"}

\* decoder.decode(input)
Outcomes(name, input) ==
    CASE name = "SMART Health Card" -> ShcOutcomes(input)
      [] name = "AAMVA" -> AamvaOutcomes(input)
      [] name = "Link" -> LinkOutcomes(input)
      [] name = "Generic Data" -> GenericOutcomes(input)

Effects(name, input) == IF name = "SMART Health Card" THEN ShcEffects(input) ELSE {}

\* The record a decoder returns.
BarcodeData(name, input) == [by |-> name, data |-> input]

\* One decode call: where it is, its input, the index of the decoder the
\* loop is at, the invocations made, the store and network operations,
\* and the returned Option.
IdleCall == [pc |-> "idle", input |-> <<>>, pos |-> 1, invoked |-> <<>>, effects |-> {}, result |-> <<>>]

\* The last two toggle_decoder calls: name, enabled, and the disabled set
\* each found.
NoToggles == <<>>

\* show_ui, lines 381-383: every checkbox starts checked.
AllEnabled == [index \in DOMAIN decoders |-> TRUE]

ChainInit ==
    /\ disabled_decoders = {}
    /\ call = IdleCall
    /\ toggled = NoToggles
    /\ enabled_decoders = AllEnabled
    /\ toggle_tasks = <<>>

ChainParked == ChainInit

\* decode, line 86: the read lock is taken and held to the return.
DecodeStart(input) ==
    /\ ChainOnly
    /\ call.pc = "idle"
    /\ call' = [IdleCall EXCEPT !.pc = "loop", !.input = input]
    /\ UNCHANGED <<disabled_decoders, toggled, enabled_decoders, toggle_tasks>>

\* decode, lines 89-91: a disabled decoder is passed over.
DecodeSkip ==
    /\ ChainOnly
    /\ call.pc = "loop"
    /\ call.pos <= Len(decoders)
    /\ decoders[call.pos] \in disabled_decoders
    /\ call' = [call EXCEPT !.pos = @ + 1]
    /\ UNCHANGED <<disabled_decoders, toggled, enabled_decoders, toggle_tasks>>

\* Flawed variant of AfterOutcome: an error ends the call with None.
ErrorAborts(c, name, outcome) ==
    CASE outcome = "ok" ->
            [c EXCEPT !.pc = "returned", !.result = <<[name |-> name, data |-> BarcodeData(name, c.input)]>>]
      [] outcome = "err" -> [c EXCEPT !.pc = "returned"]
      [] outcome = "panic" -> [c EXCEPT !.pc = "panicked"]

\* What the loop does with the outcome of decoder.decode(input).
AfterOutcome(c, name, outcome) ==
    CASE outcome = "ok" ->
            [c EXCEPT !.pc = "returned", !.result = <<[name |-> name, data |-> BarcodeData(name, c.input)]>>]
      [] outcome = "err" -> [c EXCEPT !.pos = @ + 1]
      [] outcome = "panic" -> [c EXCEPT !.pc = "panicked"]

\* decode, lines 93-98: the decoder at the loop's position is invoked.
DecodeInvoke ==
    /\ ChainOnly
    /\ call.pc = "loop"
    /\ call.pos <= Len(decoders)
    /\ decoders[call.pos] \notin disabled_decoders
    /\ LET name == decoders[call.pos]
       IN  \E outcome \in Outcomes(name, call.input) :
              call' = AfterOutcome(
                         [call EXCEPT
                            !.invoked = Append(@, [name |-> name, input |-> call.input, outcome |-> outcome]),
                            !.effects = @ \cup Effects(name, call.input)],
                         name, outcome)
    /\ UNCHANGED <<disabled_decoders, toggled, enabled_decoders, toggle_tasks>>

\* decode, line 101: the loop is over, None is returned.
DecodeNone ==
    /\ ChainOnly
    /\ call.pc = "loop"
    /\ call.pos > Len(decoders)
    /\ call' = [call EXCEPT !.pc = "returned"]
    /\ UNCHANGED <<disabled_decoders, toggled, enabled_decoders, toggle_tasks>>

\* The call is over and its read lock released.
DecodeFinish ==
    /\ ChainOnly
    /\ call.pc \in {"returned", "panicked"}
    /\ call' = IdleCall
    /\ UNCHANGED <<disabled_decoders, toggled, enabled_decoders, toggle_tasks>>

\* Flawed variant of Toggle: the flag is read the wrong way round.
ToggleInverted(set, name, enabled) == IF enabled THEN set \cup {name} ELSE set \ {name}

\* HashSet::remove / HashSet::insert on the disabled set.
Toggle(set, name, enabled) == IF enabled THEN set \ {name} ELSE set \cup {name}

\* toggle_decoder: the write lock is granted when no decode holds the
\* read lock.
toggle_decoder(name, enabled) ==
    /\ ChainOnly
    /\ call.pc = "idle"
    /\ disabled_decoders' = Toggle(disabled_decoders, name, enabled)
    /\ toggled' = (IF toggled = <<>> THEN <<>> ELSE <<toggled[Len(toggled)]>>)
                      \o <<[name |-> name, enabled |-> enabled, before |-> disabled_decoders]>>
    /\ UNCHANGED <<call, enabled_decoders, toggle_tasks>>

ChainNext ==
    \/ \E input \in Inputs : DecodeStart(input)
    \/ DecodeSkip
    \/ DecodeInvoke
    \/ DecodeNone
    \/ DecodeFinish
    \/ \E name \in DecoderNames : \E enabled \in BOOLEAN : toggle_decoder(name, enabled)

\* The toggle tasks that are pending at once.
MaxChanges == 2

\* ui.rs, lines 295-314: a change of the "Enabled" checkbox of decoder
\* index writes enabled_decoders[index] and hands the worker a task that
\* will call toggle_decoder with the decoder's name and the new value.
CheckboxChanged(index) ==
    /\ ChainOnly
    /\ Len(toggle_tasks) < MaxChanges
    /\ enabled_decoders' = [enabled_decoders EXCEPT ![index] = ~enabled_decoders[index]]
    /\ toggle_tasks' = Append(toggle_tasks,
                              [name |-> decoders[index], enabled |-> ~enabled_decoders[index]])
    /\ UNCHANGED <<disabled_decoders, call, toggled>>

\* The sequence without its k-th element.
Without(seq, k) == SubSeq(seq, 1, k - 1) \o SubSeq(seq, k + 1, Len(seq))

\* One spawned task runs, ui.rs lines 304-307: the tasks are separate
\* futures on the multi-threaded runtime (ui.rs, line 370), so any of
\* them may be the next to be granted the write lock, and none is while a
\* decode holds the read lock.
ToggleTask(k) ==
    /\ ChainOnly
    /\ k \in DOMAIN toggle_tasks
    /\ call.pc = "idle"
    /\ disabled_decoders' = Toggle(disabled_decoders, toggle_tasks[k].name, toggle_tasks[k].enabled)
    /\ toggled' = (IF toggled = <<>> THEN <<>> ELSE <<toggled[Len(toggled)]>>)
                      \o <<[name |-> toggle_tasks[k].name, enabled |-> toggle_tasks[k].enabled,
                            before |-> disabled_decoders]>>
    /\ toggle_tasks' = Without(toggle_tasks, k)
    /\ UNCHANGED <<call, enabled_decoders>>

\* The settings window at work while barcodes are being decoded.
SettingsNext ==
    \/ \E index \in DOMAIN decoders : CheckboxChanged(index)
    \/ \E k \in 1..MaxChanges : ToggleTask(k)
    \/ DecodeStart(<<"https://a">>)
    \/ DecodeSkip
    \/ DecodeInvoke
    \/ DecodeNone
    \/ DecodeFinish

(***************************************************************************)
(* Decoder chain: properties                                               *)
(***************************************************************************)

\* The order the chain is documented to have.
DocumentedOrder == <<"SMART Health Card", "AAMVA", "Link", "Generic Data">>

\* The enabled decoders in the documented order.
EnabledInOrder == SelectSeq(DocumentedOrder, LAMBDA d : d \notin disabled_decoders)

\* The call's invocations are the first enabled decoders, in order.
InvokedIsPrefix ==
    /\ Len(call.invoked) <= Len(EnabledInOrder)
    /\ \A k \in DOMAIN call.invoked : call.invoked[k].name = EnabledInOrder[k]

\* C11: a decode call returns the result of the first decoder, in the order
\* SHC, AAMVA, Link, Generic, that is enabled and succeeds; nothing is
\* invoked after a success; None is returned only when every enabled
\* decoder failed.
C11_FirstEnabledSuccessWins ==
    call.pc = "returned" =>
        LET n == Len(call.invoked)
        IN  /\ InvokedIsPrefix
            /\ \A k \in 1..(n - 1) : call.invoked[k].outcome = "err"
            /\ IF call.result = <<>>
               THEN /\ n = Len(EnabledInOrder)
                    /\ \A k \in 1..n : call.invoked[k].outcome = "err"
               ELSE /\ n > 0
                    /\ call.invoked[n].outcome = "ok"
                    /\ call.result[1].name = call.invoked[n].name
                    /\ call.result[1].data.by = call.invoked[n].name

\* A URL is decodable by Link and by Generic; with everything enabled Link,
\* the earlier one, is returned after SHC and AAMVA failed.
C11_Witness ==
    /\ call.pc = "returned"
    /\ call.input = <<"https://a">>
    /\ disabled_decoders = {}
    /\ Len(call.invoked) = 3
    /\ call.result # <<>>
    /\ call.result[1].name = "Link"

\* C12 (as amended): a disabled decoder is never invoked and never named in
\* a result; disabling an enabled decoder and then enabling it gives back
\* the disabled set there was; a toggle repeated with the same value
\* changes nothing.
C12_DisabledNeverInvoked ==
    /\ \A k \in DOMAIN call.invoked : call.invoked[k].name \notin disabled_decoders
    /\ (call.pc = "returned" /\ call.result # <<>>) => call.result[1].name \notin disabled_decoders
    /\ Len(toggled) = 2 =>
          LET a == toggled[1]
              b == toggled[2]
          IN  /\ (a.name = b.name /\ ~a.enabled /\ b.enabled /\ a.name \notin a.before)
                    => disabled_decoders = a.before
              /\ (a.name = b.name /\ a.enabled = b.enabled)
                    => disabled_decoders = b.before

\* Link was disabled and enabled again, and a URL is decoded by Link.
C12_Witness ==
    /\ Len(toggled) = 2
    /\ toggled[1] = [name |-> "Link", enabled |-> FALSE, before |-> {"AAMVA"}]
    /\ toggled[2].name = "Link" /\ toggled[2].enabled
    /\ call.pc = "returned"
    /\ call.result # <<>>
    /\ call.result[1].name = "Link"

\* C12 as stated: toggle_decoder(name, false) followed by
\* toggle_decoder(name, true) restores the disabled set, whatever it was.
C12_AsStated ==
    /\ \A k \in DOMAIN call.invoked : call.invoked[k].name \notin disabled_decoders
    /\ Len(toggled) = 2 =>
          LET a == toggled[1]
              b == toggled[2]
          IN  /\ (a.name = b.name /\ ~a.enabled /\ b.enabled)
                    => disabled_decoders = a.before
              /\ (a.name = b.name /\ a.enabled = b.enabled)
                    => disabled_decoders = b.before

\* C13: after a decoder's error the chain goes on to the next enabled
\* decoder with the same input; each enabled decoder is invoked at most
\* once in a call; the error is not part of the result.
C13_ErrorFallsThrough ==
    /\ InvokedIsPrefix
    /\ \A j, k \in DOMAIN call.invoked :
          call.invoked[j].name = call.invoked[k].name => j = k
    /\ \A k \in DOMAIN call.invoked : call.invoked[k].input = call.input
    /\ (call.pc = "returned" /\ call.invoked # <<>>
            /\ call.invoked[Len(call.invoked)].outcome = "err")
          => /\ Len(call.invoked) = Len(EnabledInOrder)
             /\ call.result = <<>>
    /\ (call.pc = "returned" /\ call.result # <<>>)
          => \A k \in DOMAIN call.invoked :
                call.invoked[k].outcome = "err" => call.result[1].name # call.invoked[k].name

\* SHC failed on a malformed card, AAMVA is disabled, Link failed, and
\* Generic returned the text.
C13_Witness ==
    /\ call.pc = "returned"
    /\ call.input = <<"shc:/", "odd_length">>
    /\ disabled_decoders = {"AAMVA"}
    /\ Len(call.invoked) = 3
    /\ call.invoked[1].outcome = "err"
    /\ call.invoked[2].outcome = "err"
    /\ call.result # <<>>
    /\ call.result[1].name = "Generic Data"

\* The text begins with the literal prefix.
BeginsWithShcPrefix(input) == input # <<>> /\ Head(input) = "shc:/"

\* C14: a text that does not begin with shc:/ is rejected by the SHC
\* decoder before any later stage and before any store or network access;
\* with Generic enabled every call returns a result; 1234567890 decodes as
\* "Generic Data".
C14_ShcRejectsThenGeneric ==
    /\ \A k \in DOMAIN call.invoked :
          (call.invoked[k].name = "SMART Health Card" /\ ~BeginsWithShcPrefix(call.input))
             => /\ call.invoked[k].outcome = "err"
                /\ call.effects = {}
    /\ (call.pc \in {"returned", "panicked"} /\ "Generic Data" \notin disabled_decoders)
          => /\ call.pc = "returned"
             /\ call.result # <<>>
    /\ (call.pc = "returned" /\ call.input = <<"1234567890">>
            /\ "Generic Data" \notin disabled_decoders)
          => call.result[1].name = "Generic Data"

(***************************************************************************)
(* Numeric pairs (shc.rs, decode_qr_data)                                  *)
(*                                                                         *)
(* A string is a sequence of code points.  A &str is UTF-8, so lengths and *)
(* slice bounds count bytes: Bytes turns a string into its byte cells,     *)
(* each holding the character it belongs to and whether it is the first    *)
(* byte of that character.                                                 *)
(***************************************************************************)
MaxChars == 3
Offset == 45
ByteSize == 256

\* char::is_whitespace (the White_Space property), which str::trim strips.
White_Space ==
    {9, 10, 11, 12, 13, 32, 133, 160, 5760, 8232, 8233, 8239, 8287, 12288} \cup (8192..8202)

RECURSIVE trim_front(_)
trim_front(s) ==
    IF s # <<>> /\ Head(s) \in White_Space THEN trim_front(Tail(s)) ELSE s

RECURSIVE trim_back(_)
trim_back(s) ==
    IF s # <<>> /\ s[Len(s)] \in White_Space
    THEN trim_back(SubSeq(s, 1, Len(s) - 1))
    ELSE s

str_trim(s) == trim_back(trim_front(s))

\* "shc:/"
ShcPrefix == <<115, 104, 99, 58, 47>>

starts_with(s, prefix) ==
    Len(s) >= Len(prefix) /\ SubSeq(s, 1, Len(prefix)) = prefix

\* The number of bytes of one character in UTF-8.
len_utf8(c) == IF c < 128 THEN 1 ELSE IF c < 2048 THEN 2 ELSE IF c < 65536 THEN 3 ELSE 4

RECURSIVE Bytes(_)
Bytes(s) ==
    IF s = <<>> THEN <<>>
    ELSE [k \in 1..len_utf8(Head(s)) |-> [char |-> Head(s), first |-> k = 1]]
            \o Bytes(Tail(s))

\* str::is_char_boundary for a byte offset counted from 0.
is_char_boundary(bytes, index) ==
    \/ index = 0
    \/ index = Len(bytes)
    \/ index < Len(bytes) /\ bytes[index + 1].first

IsDigit(c) == c \in 48..57

\* <u8 as FromStr>::from_str on a chunk of two bytes: a leading '+' is
\* accepted, a '-' is not a digit of an unsigned type.  None is -1.
parse_u8(chunk) ==
    LET a == chunk[1].char
        b == chunk[2].char
    IN  IF ~chunk[2].first THEN -1
        ELSE IF a = 43 /\ IsDigit(b) THEN b - 48
        ELSE IF IsDigit(a) /\ IsDigit(b) THEN 10 * (a - 48) + (b - 48)
        ELSE -1

\* (num + 45) as char, with num a u8: the sum in 8 bits.
NarrowChar(num) == (num + Offset) % (ByteSize \div 2)

PushedChar(num) == (num + Offset) % ByteSize

\* The writer's side of the scheme: each character as the two decimal
\* digits of its code less 45.
RECURSIVE EncodePairs(_)
EncodePairs(s) ==
    IF s = <<>> THEN <<>>
    ELSE <<48 + ((Head(s) - Offset) \div 10), 48 + ((Head(s) - Offset) % 10)>>
            \o EncodePairs(Tail(s))

Representable == Offset..(Offset + 99)

\* The characters the longer strings are made of: the ends of the range,
\* digits, and both sides of the one-byte/two-byte boundary of UTF-8.
SampleChars == {45, 54, 101, 127, 128, 144}

SeqsUpTo(S, n) == UNION {[1..k -> S] : k \in 0..n}

Originals == SeqsUpTo(SampleChars, MaxChars) \cup {<<c>> : c \in Representable}

\* Scanned texts that are not the encoding of any string, and encodings
\* with white space around them.
OtherTexts ==
    { <<>>, <<53, 53>>,
      ShcPrefix \o <<53>>, ShcPrefix \o <<43, 53>>, ShcPrefix \o <<45, 53>>,
      ShcPrefix \o <<53, 32>>, ShcPrefix \o <<32, 53>>, ShcPrefix \o <<97, 53>>,
      ShcPrefix \o <<233>>, ShcPrefix \o <<53, 233, 53>>, ShcPrefix \o <<8364, 53>>,
      ShcPrefix \o <<53, 53, 233>>,
      <<32, 9>> \o ShcPrefix \o <<48, 48, 57, 57>> \o <<13, 10>>,
      <<160>> \o ShcPrefix \o <<56, 51>> \o <<8232>>,
      <<32>> \o <<53, 53>> }

QrTexts == {ShcPrefix \o EncodePairs(s) : s \in Originals} \cup OtherTexts

QrIdle == [pc |-> "idle", input |-> <<>>, data |-> <<>>, pos |-> 0, payload |-> <<>>]

PairsInit == \E input \in QrTexts : qr = [QrIdle EXCEPT !.pc = "start", !.input = input]

\* Lines 464-470: trim, the prefix, the even length.
QrStrip ==
    /\ qr.pc = "start"
    /\ LET trimmed == str_trim(qr.input)
       IN  IF ~starts_with(trimmed, ShcPrefix)
           THEN qr' = [qr EXCEPT !.pc = "err"]
           ELSE LET data == Bytes(SubSeq(trimmed, Len(ShcPrefix) + 1, Len(trimmed)))
                IN  IF Len(data) % 2 # 0
                    THEN qr' = [qr EXCEPT !.pc = "err"]
                    ELSE qr' = [qr EXCEPT !.pc = "loop", !.data = data]
    /\ PairsOnly

\* Lines 472-477: one pass of the loop.  The slice panics when an end of
\* the chunk falls inside a character.
QrPair ==
    /\ qr.pc = "loop"
    /\ qr.pos < Len(qr.data) \div 2
    /\ LET begin == qr.pos * 2
           chunk == SubSeq(qr.data, begin + 1, begin + 2)
           num == parse_u8(chunk)
       IN  IF ~(is_char_boundary(qr.data, begin) /\ is_char_boundary(qr.data, begin + 2))
           THEN qr' = [qr EXCEPT !.pc = "panic"]
           ELSE IF num = -1
           THEN qr' = [qr EXCEPT !.pc = "err"]
           ELSE qr' = [qr EXCEPT !.pos = @ + 1,
                                 !.payload = Append(@, PushedChar(num))]
    /\ PairsOnly

\* Line 479.
QrReturn ==
    /\ qr.pc = "loop"
    /\ qr.pos = Len(qr.data) \div 2
    /\ qr' = [qr EXCEPT !.pc = "ok"]
    /\ PairsOnly

PairsNext == QrStrip \/ QrPair \/ QrReturn

PairsParked == qr = QrIdle

\* C25: the text made of shc:/ and the pairs of a string over the codes
\* 45..144 never fails, its payload grows as that string and is that string
\* when the decoder returns; and no pushed character wrapped around 8 bits
\* (a wrapped sum is below 45), whatever the text.
C25_PairRoundTrip ==
    /\ \A s \in Originals :
          qr.input = ShcPrefix \o EncodePairs(s) =>
             /\ qr.pc \in {"start", "loop", "ok"}
             /\ qr.payload = SubSeq(s, 1, qr.pos)
             /\ qr.pc = "ok" => qr.payload = s
    /\ \A k \in DOMAIN qr.payload : qr.payload[k] \in Representable

\* The characters after the prefix of the trimmed text.
SectionOf(input) == SubSeq(str_trim(input), Len(ShcPrefix) + 1, Len(str_trim(input)))

AllPairsOfDigits(section) ==
    Len(section) % 2 = 0 /\ \A k \in DOMAIN section : IsDigit(section[k])

\* C32: for a text with the prefix, the expansion ends with an error when
\* the section has an odd length or holds a pair that is not two digits,
\* and it succeeds exactly when every pair is two digits, with the
\* character nn + 45 for each pair nn.
C32_DigitsOrError ==
    (qr.pc \in {"ok", "err", "panic"} /\ starts_with(str_trim(qr.input), ShcPrefix)) =>
        LET section == SectionOf(qr.input)
        IN  /\ ~AllPairsOfDigits(section) => qr.pc = "err"
            /\ AllPairsOfDigits(section) =>
                  /\ qr.pc = "ok"
                  /\ Len(qr.payload) = Len(section) \div 2
                  /\ \A k \in DOMAIN qr.payload :
                        qr.payload[k] = 10 * (section[2 * k - 1] - 48) + (section[2 * k] - 48) + Offset

\* C25 happens: a string holding both ends of the range and a character
\* above 127 came back from its pairs.
C25_Witness ==
    /\ qr.pc = "ok"
    /\ qr.payload = <<144, 45, 128>>
    /\ qr.input = ShcPrefix \o <<57, 57, 48, 48, 56, 51>>

(***************************************************************************)
(* The issuer transaction (shc.rs, update_vci_issuer lines 410-429)        *)
(*                                                                         *)
(* One issuer's row and keys in the SQLite store, the transaction that     *)
(* update_vci_issuer runs on it after a successful fetch, and a reader on  *)
(* another connection of the pool.  A reader sees committed data only; the *)
(* transaction sees its own writes.  A transaction dropped before commit   *)
(* is rolled back.                                                         *)
(***************************************************************************)
MaxKeys == 2
MaxTx == 2

KeyIds == 1..MaxKeys
NoKid == 0

\* The JWKS a fetch returned: its keys in order, each with a kid or not.
JwkSets == UNION {[1..k -> KeyIds \cup {NoKid}] : k \in 0..MaxKeys}

\* A row of vci_issuer: stamp is updated_at, counted in transactions.
NoIssuerRow == [present |-> FALSE, error |-> FALSE, stamp |-> 0]
OldRows == {NoIssuerRow} \cup [present : {TRUE}, error : BOOLEAN, stamp : {0}]

NoSnapshot == [row |-> NoIssuerRow, keys |-> {NoKid}]

\* txn: row, keys are the committed data; tpc the position of
\* update_vci_issuer; jwks what it fetched; todo the keys the loop has not
\* reached; trow, tkeys the data as the open transaction sees it; before a
\* copy of the committed data at begin; seen what the reader's last query
\* returned since then; run counts the transactions begun.
TxInit ==
    \E row \in OldRows, keys \in SUBSET KeyIds :
        /\ ~row.present => keys = {}
        /\ txn = [row |-> row, keys |-> keys, tpc |-> "idle", jwks |-> <<>>,
                  todo |-> <<>>, trow |-> row, tkeys |-> keys,
                  before |-> [row |-> row, keys |-> keys],
                  seen |-> NoSnapshot, run |-> 0]

TxParked ==
    txn = [row |-> NoIssuerRow, keys |-> {}, tpc |-> "idle", jwks |-> <<>>,
           todo |-> <<>>, trow |-> NoIssuerRow, tkeys |-> {},
           before |-> [row |-> NoIssuerRow, keys |-> {}],
           seen |-> NoSnapshot, run |-> 0]

InTx == txn.tpc \in {"begun", "saved"}

\* What a query outside the transaction returns for the issuer.
VisibleUncommitted(t) ==
    IF t.tpc \in {"begun", "saved"}
    THEN [row |-> t.trow, keys |-> t.tkeys]
    ELSE [row |-> t.row, keys |-> t.keys]

Visible(t) == [row |-> t.row, keys |-> t.keys]

\* Line 410: pool.begin(), after the fetch and the parse succeeded.
TxBegin ==
    /\ txn.tpc \in {"idle", "committed", "rolled_back"}
    /\ txn.run < MaxTx
    /\ \E jwks \in JwkSets :
          txn' = [txn EXCEPT !.tpc = "begun", !.jwks = jwks, !.todo = jwks,
                             !.trow = txn.row, !.tkeys = txn.keys,
                             !.before = [row |-> txn.row, keys |-> txn.keys],
                             !.seen = NoSnapshot, !.run = @ + 1]
    /\ TxOnly

\* Line 412: save_vci_issuer(&mut *tx, issuer, false).
TxSaveIssuer ==
    /\ txn.tpc = "begun"
    /\ txn' = [txn EXCEPT !.tpc = "saved",
                          !.trow = [present |-> TRUE, error |-> FALSE, stamp |-> txn.run]]
    /\ TxOnly

\* INSERT .. ON CONFLICT (vci_issuer_id, key_id) DO UPDATE, lines 417-424:
\* the issuer's key rows after the statement.
only_key(keys, key_id) == {key_id}

upsert_key(keys, key_id) == keys \cup {key_id}

\* Lines 414-427: one pass of the loop upserts one key.
TxUpsertKey ==
    /\ txn.tpc = "saved"
    /\ txn.todo # <<>>
    /\ Head(txn.todo) # NoKid
    /\ txn' = [txn EXCEPT !.tkeys = upsert_key(@, Head(txn.todo)), !.todo = Tail(@)]
    /\ TxOnly

\* Line 415: key_id.as_deref().unwrap() on a key without a kid panics; the
\* transaction is dropped.
TxPanic ==
    /\ txn.tpc = "saved"
    /\ txn.todo # <<>>
    /\ Head(txn.todo) = NoKid
    /\ txn' = [txn EXCEPT !.tpc = "rolled_back"]
    /\ TxOnly

\* A statement of the transaction, or the commit, fails: `?` returns and
\* the transaction is dropped.
TxStoreErr ==
    /\ InTx
    /\ txn' = [txn EXCEPT !.tpc = "rolled_back"]
    /\ TxOnly

\* Line 429: tx.commit().
TxCommit ==
    /\ txn.tpc = "saved"
    /\ txn.todo = <<>>
    /\ txn' = [txn EXCEPT !.tpc = "committed", !.row = txn.trow, !.keys = txn.tkeys]
    /\ TxOnly

\* Another task queries the issuer and its keys while the update runs or
\* after it ended.
ReaderQuery ==
    /\ txn.tpc # "idle"
    /\ txn' = [txn EXCEPT !.seen = Visible(txn)]
    /\ TxOnly

TxNext ==
    \/ TxBegin
    \/ TxSaveIssuer
    \/ TxUpsertKey
    \/ TxPanic
    \/ TxStoreErr
    \/ TxCommit
    \/ ReaderQuery

Fetched == {txn.jwks[k] : k \in DOMAIN txn.jwks}

\* C23: whatever a reader's query returned since the update began is the
\* row and keys as they were at begin, or the updated row with every
\* fetched key.
C23_AtomicKeySet ==
    txn.seen # NoSnapshot =>
        \/ txn.seen = txn.before
        \/ /\ txn.seen.row = [present |-> TRUE, error |-> FALSE, stamp |-> txn.run]
           /\ txn.seen.keys = txn.before.keys \cup Fetched

\* C23 happens: an update of two new keys committed, and the reader's
\* query after the commit returned the new row and both keys.
C23_Witness ==
    /\ txn.tpc = "committed"
    /\ Cardinality(Fetched \ txn.before.keys) = 2
    /\ txn.seen # NoSnapshot
    /\ txn.seen # txn.before
    /\ Fetched \subseteq txn.seen.keys

\* C38: no step removes a key id from the issuer's stored keys, and the
\* commit of a refresh leaves the ids stored before together with the ids
\* of the fetched JWKS.
C38_KeysNeverDeleted ==
    [][/\ txn.keys \subseteq txn'.keys
       /\ (txn.tpc = "saved" /\ txn'.tpc = "committed") =>
             txn'.keys = txn.before.keys \cup Fetched]_vars

\* C38 happens: the second refresh committed, and a key id that its JWKS
\* no longer holds is still stored beside the fetched ones.
C38_Witness ==
    /\ txn.tpc = "committed"
    /\ txn.run = 2
    /\ Fetched # {}
    /\ Fetched \subseteq txn.keys
    /\ \E k \in txn.keys : k \notin Fetched /\ k \in txn.before.keys

\* The reader's query ran while the transaction held some of the keys and
\* not yet all of them.
ReadDuringLoop ==
    txn.tpc = "saved" /\ txn.seen = txn.before /\ txn.tkeys # txn.keys /\ txn.todo # <<>>

\* C40: once every toggle task spawned for the checkbox changes has run,
\* a decoder's name is in the shared disabled set exactly when its
\* checkbox is unchecked: the last change wins under every scheduling of
\* the tasks and every decode holding the read lock.
C40_LastChangeWins ==
    toggle_tasks = <<>> =>
        \A index \in DOMAIN decoders :
            (decoders[index] \in disabled_decoders) <=> ~enabled_decoders[index]

\* Supporting: with at most one task pending the set does follow the
\* checkbox, so the divergence needs two tasks in flight.
OneAtATime ==
    (toggle_tasks = <<>> /\ Len(toggled) = 1) =>
        \A index \in DOMAIN decoders :
            (decoders[index] \in disabled_decoders) <=> ~enabled_decoders[index]

(***************************************************************************)
(* One SMART Health Card through SmartHealthCardDecoder::decode (shc.rs)   *)
(*                                                                         *)
(* The scanned text is shc:/ and a numeric section.  The section is either *)
(* the pairs of a JWS, described by its parts and by what is wrong with    *)
(* it, or one of the malformed sections below, which decode_qr_data is     *)
(* computed on.  The JWS was signed by its issuer's EC key with ES256 over *)
(* header.payload; its header may declare another algorithm.               *)
(***************************************************************************)
MaxFlaws == 2

RECURSIVE PairsFrom(_, _)
PairsFrom(data, pos) ==
    IF pos = Len(data) \div 2 THEN [kind |-> "ok", payload |-> <<>>]
    ELSE LET begin == pos * 2
             num == parse_u8(SubSeq(data, begin + 1, begin + 2))
             rest == PairsFrom(data, pos + 1)
         IN  IF ~(is_char_boundary(data, begin) /\ is_char_boundary(data, begin + 2))
             THEN [kind |-> "panic", payload |-> <<>>]
             ELSE IF num = -1 THEN [kind |-> "err", payload |-> <<>>]
             ELSE IF rest.kind # "ok" THEN rest
             ELSE [kind |-> "ok", payload |-> <<PushedChar(num)>> \o rest.payload]

\* decode_qr_data as a function of its input: how it ends, and the payload.
decode_qr_data(input) ==
    LET trimmed == str_trim(input)
        data == Bytes(SubSeq(trimmed, Len(ShcPrefix) + 1, Len(trimmed)))
    IN  IF ~starts_with(trimmed, ShcPrefix) \/ Len(data) % 2 # 0
        THEN [kind |-> "err", payload |-> <<>>]
        ELSE PairsFrom(data, 0)

\* The loop of QrStrip, QrPair and QrReturn ends as the function says.
PairsAsFunction ==
    qr.pc \in {"ok", "err", "panic"} =>
        /\ decode_qr_data(qr.input).kind = qr.pc
        /\ qr.pc = "ok" => decode_qr_data(qr.input).payload = qr.payload

\* Numeric sections that are not pairs of digits: an odd length, a sign, a
\* letter, a two-byte character as a pair, and characters of two and three
\* bytes across a pair.
MalformedSections ==
    { <<53>>, <<43, 53>>, <<45, 53>>, <<97, 53>>, <<233>>,
      <<53, 233, 53>>, <<8364, 53>> }

\* What can be wrong with the JWS inside well-formed pairs.
Flaws ==
    {"parts2", "parts4", "hdr_b64", "hdr_json", "no_iss", "no_kid", "bad_entries"}

\* The second part of the JWS.  The pairs give characters from code 45 on,
\* so the part holds no double quote and is never a JSON object itself; it
\* is the base64url text of a raw DEFLATE stream of the JSON claims, of the
\* JSON claims themselves, of a DEFLATE stream of other text, or of other
\* bytes; or text outside the base64url alphabet; or decimal digits, which
\* are base64url text and a JSON number at once.
Bodies ==
    {"b64_deflate_json", "b64_json", "b64_deflate_text", "b64_bytes", "not_b64", "digits"}

\* URL_SAFE_NO_PAD.decode of the part (line 489).
b64_decode(body) ==
    CASE body = "b64_deflate_json" -> "deflate_json"
      [] body = "b64_json" -> "json"
      [] body = "b64_deflate_text" -> "deflate_text"
      [] body \in {"b64_bytes", "digits"} -> "bytes"
      [] OTHER -> "err"

\* DeflateDecoder and read_to_string (lines 491-493).
inflate(bytes) ==
    CASE bytes = "deflate_json" -> "json"
      [] bytes = "deflate_text" -> "text"
      [] OTHER -> "err"

\* decompress_data, lines 486-498: the inflated second part when the
\* header's zip is DEF, the second part as it stands otherwise.
decompress_data(zip, body) == IF zip THEN inflate(b64_decode(body)) ELSE body

\* serde_json::from_str (line 667): the claims object, another JSON value,
\* or an error.
from_str(text) ==
    CASE text = "json" -> "claims"
      [] text = "digits" -> "number"
      [] OTHER -> "err"

FlawSets == {f \in SUBSET Flaws : Cardinality(f) <= MaxFlaws}

Algs == {"ES256", "RS256"}

\* The third part of the JWS: the signature of the issuer named in iss, a
\* signature made with the key of another issuer, another signature of the
\* right form, or text that is not base64url.
Signatures == {"sig", "forged", "wrong", "notb64"}

\* A key as served by the issuer for the card's kid: the issuer's EC key,
\* another EC key, an RSA key, and a JWK whose coordinates do not decode.
KeyKinds == {"ec_good", "ec_other", "rsa", "bad_jwk"}

\* vci_issuer_key is unique on (vci_issuer_id, key_id): the store can hold
\* under the card's kid the key of another issuer.
StoredKeyKinds == KeyKinds \cup {"ec_foreign"}

\* The issuer's row in vci_issuer: name, website, canonical_iss.
NoStored == [present |-> FALSE, name |-> "None", website |-> "None", canonical_iss |-> "None"]
StoredIssuers ==
    {NoStored} \cup [present : {TRUE}, name : {"Name"}, website : {"None", "Website"},
                     canonical_iss : {"None", "Canonical"}]

\* The JWS as split('.') sees it.
PartsOf(c) ==
    IF "parts2" \in c.flaws THEN <<"header", "payload">>
    ELSE IF "parts4" \in c.flaws THEN <<"header", "payload", "extra", c.sig>>
    ELSE <<"header", "payload", c.sig>>

NoCheck == [path |-> "none", alg |-> "none", message |-> <<>>, signature |-> "none"]

CardIdle ==
    [numeric |-> "pairs", flaws |-> {}, alg |-> "ES256", zip |-> TRUE,
     body |-> "b64_deflate_json", sig |-> "sig",
     pc |-> "idle", failed_at |-> "none", path |-> "none",
     local_key |-> "unknown", row |-> "unknown", net |-> "none", jwks_key |-> "unknown",
     stored_before |-> NoStored, stored |-> NoStored, name |-> "None",
     fetched |-> FALSE, jwk_set |-> FALSE, check |-> NoCheck, verified |-> "none",
     listed |-> FALSE, entries |-> FALSE]

WellFormedCards ==
    {[CardIdle EXCEPT !.pc = "start", !.flaws = f, !.alg = a, !.zip = z, !.body = b,
                      !.sig = s] :
        f \in FlawSets, a \in Algs, z \in BOOLEAN, b \in Bodies, s \in Signatures}

CardInit ==
    \/ card \in WellFormedCards
    \/ \E section \in MalformedSections :
          card = [CardIdle EXCEPT !.pc = "start", !.numeric = section]

PipelineParked == card = CardIdle

Ends(kind, stage) == card' = [card EXCEPT !.pc = kind, !.failed_at = stage]

\* Lines 654-672: the first stage that fails, in the order of the code.
ParseFailure(c) ==
    IF c.numeric # "pairs"
    THEN LET r == decode_qr_data(ShcPrefix \o c.numeric)
         IN  IF r.kind = "ok" THEN [kind |-> "err", stage |-> "decode_header"]
             ELSE [kind |-> r.kind, stage |-> "decode_qr_data"]
    ELSE IF c.flaws \cap {"parts2", "parts4", "hdr_b64", "hdr_json"} # {}
    THEN [kind |-> "err", stage |-> "decode_header"]
    ELSE IF Len(PartsOf(c)) # 3 THEN [kind |-> "err", stage |-> "parts"]
    ELSE IF decompress_data(c.zip, c.body) = "err"
    THEN [kind |-> "err", stage |-> "decompress_data"]
    ELSE IF from_str(decompress_data(c.zip, c.body)) = "err"
    THEN [kind |-> "err", stage |-> "json"]
    ELSE IF from_str(decompress_data(c.zip, c.body)) # "claims" \/ "no_iss" \in c.flaws
    THEN [kind |-> "err", stage |-> "iss"]
    ELSE [kind |-> "ok", stage |-> "none"]

CardParse ==
    /\ card.pc = "start"
    /\ LET f == ParseFailure(card)
       IN  IF f.kind = "ok" THEN card' = [card EXCEPT !.pc = "kid"]
           ELSE Ends(f.kind, f.stage)
    /\ CardOnly

\* Line 674: header.kid.unwrap().
CardKid ==
    /\ card.pc = "kid"
    /\ IF "no_kid" \in card.flaws THEN Ends("panic", "kid")
       ELSE card' = [card EXCEPT !.pc = "lookup"]
    /\ CardOnly

\* Lines 675-680: the key is looked up by its key id alone.
CardLookup ==
    /\ card.pc = "lookup"
    /\ \E key \in StoredKeyKinds \cup {"none"} :
          card' = [card EXCEPT !.pc = IF key = "none" THEN "name" ELSE "verify_local",
                               !.path = IF key = "none" THEN "fetched" ELSE "local",
                               !.local_key = key]
    /\ CardOnly

\* A query on the pool fails and `?` returns the error: the key lookup
\* (680), the name lookup (700), update_vci_issuer's statements (714) and
\* the issuer query (756).
CardStoreErr ==
    /\ card.pc \in {"lookup", "name", "update", "save", "issuer"}
    /\ Ends("err", card.pc)
    /\ CardOnly

\* jsonwebtoken::DecodingKey::from_jwk.
from_jwk(key) == IF key = "bad_jwk" THEN "err" ELSE "ok"

\* jsonwebtoken::crypto::verify: the results it can have.  The ECDSA branch
\* takes the key's bytes, which an RSA key built from its components does
\* not have: releases of the library differ in what follows.  Otherwise the
\* signature is decoded from base64url first, and an undecodable one is an
\* error; a decodable one is checked.
verify(signature, message, key, alg) ==
    IF alg = "ES256" /\ key = "rsa" THEN {"panic", "false"}
    ELSE IF signature = "notb64" THEN {"err"}
    ELSE IF /\ <<signature, key>> \in {<<"sig", "ec_good">>, <<"forged", "ec_foreign">>}
            /\ message = <<"header", "payload">>
            /\ alg = "ES256"
         THEN {"true"}
         ELSE {"false"}

\* Line 682: the text before the last dot.
MessageOf(c) == SubSeq(PartsOf(c), 1, Len(PartsOf(c)) - 1)

\* The algorithm each path hands to verify (lines 690 and 724).
HeaderAlg(c) == c.alg

LocalAlg(c) == "ES256"

FetchedAlg(c) == c.alg

CheckOf(c, path) ==
    [path |-> path,
     alg |-> IF path = "local" THEN LocalAlg(c) ELSE FetchedAlg(c),
     message |-> MessageOf(c),
     signature |-> PartsOf(c)[3]]

\* from_jwk(..)? and verify(..)? on the given path with the given key;
\* on the fetched path add_issuer (line 735) follows a result.
Checked(path, key) ==
    IF from_jwk(key) = "err" THEN Ends("err", card.pc)
    ELSE LET chk == CheckOf(card, path)
         IN  \E r \in verify(chk.signature, chk.message, key, chk.alg) :
                 IF r \in {"err", "panic"}
                 THEN card' = [card EXCEPT !.pc = r, !.failed_at = card.pc, !.check = chk]
                 ELSE card' = [card EXCEPT !.pc = "entries", !.check = chk, !.verified = r,
                                           !.listed = (path = "fetched")]

\* Lines 684-692.
CardVerifyLocal ==
    /\ card.pc = "verify_local"
    /\ Checked("local", card.local_key)
    /\ CardOnly

\* Lines 698-701: the stored name of the issuer, or "Unknown Issuer".
CardIssuerName ==
    /\ card.pc = "name"
    /\ \E row \in StoredIssuers :
          card' = [card EXCEPT !.pc = "update", !.stored_before = row, !.stored = row,
                               !.name = IF row.present THEN row.name ELSE "Unknown Issuer"]
    /\ CardOnly

\* update_vci_issuer(.., false), lines 354-381: a row younger than 7 days
\* answers without a fetch and without keys.
CardUpdateLookup ==
    /\ card.pc = "update"
    /\ \E row \in IF card.stored.present THEN {"fresh", "stale"} ELSE {"none"} :
          card' = [card EXCEPT !.row = row,
                               !.pc = IF row = "fresh" THEN "verify_fetched" ELSE "fetch"]
    /\ CardOnly

\* Lines 383-408: the request and the parse of the JWKS.
CardFetch ==
    /\ card.pc = "fetch"
    /\ \E net \in {"net_err", "bad_json", "ok"} :
          card' = [card EXCEPT !.net = net, !.fetched = TRUE, !.pc = "save"]
    /\ CardOnly

\* The row save_vci_issuer leaves (lines 443-450) for the VciIssuer that
\* decode builds at lines 706-711: the name it looked up, no website and no
\* canonical_iss; the upsert sets all three.
SavedRow(c) ==
    [present |-> TRUE, name |-> c.name, website |-> "None", canonical_iss |-> "None"]

\* Lines 387 and 401: save_vci_issuer with the error flag; lines 410-431:
\* the transaction, which panics at 415 on a key without a kid and is then
\* rolled back.
CardSave ==
    /\ card.pc = "save"
    /\ IF card.net # "ok"
       THEN card' = [card EXCEPT !.pc = "verify_fetched", !.stored = SavedRow(card)]
       ELSE \/ \E key \in KeyKinds \cup {"none"} :
                  card' = [card EXCEPT !.pc = "verify_fetched", !.jwk_set = TRUE,
                                       !.jwks_key = key, !.stored = SavedRow(card)]
            \/ Ends("panic", "save")
    /\ CardOnly

\* Lines 716-735.
CardVerifyFetched ==
    /\ card.pc = "verify_fetched"
    /\ IF card.jwk_set /\ card.jwks_key # "none"
       THEN Checked("fetched", card.jwks_key)
       ELSE card' = [card EXCEPT !.pc = "entries", !.verified = "false", !.listed = TRUE]
    /\ CardOnly

\* Lines 740-741.
CardEntries ==
    /\ card.pc = "entries"
    /\ IF "bad_entries" \in card.flaws THEN Ends("err", "entries")
       ELSE card' = [card EXCEPT !.pc = "issuer", !.entries = TRUE]
    /\ CardOnly

\* Lines 745-765.
CardReturn ==
    /\ card.pc = "issuer"
    /\ card' = [card EXCEPT !.pc = "ok"]
    /\ CardOnly

CardNext ==
    \/ CardParse
    \/ CardKid
    \/ CardLookup
    \/ CardStoreErr
    \/ CardVerifyLocal
    \/ CardIssuerName
    \/ CardUpdateLookup
    \/ CardFetch
    \/ CardSave
    \/ CardVerifyFetched
    \/ CardEntries
    \/ CardReturn

(***************************************************************************)
(* One SMART Health Card: properties                                       *)
(***************************************************************************)
WellFormed ==
    card.numeric = "pairs" /\ card.flaws = {} /\ card.zip /\ card.body = "b64_deflate_json"

PastVerify == card.pc \in {"entries", "issuer", "ok", "err", "panic"}

\* C21: for a well-formed card whose kid is in the local store, decode
\* never ends at the signature check, whatever the signature and the stored
\* key; when it returns, the record has a boolean outcome and the entries,
\* and the outcome is true only when the check of the signature under the
\* stored key succeeds.
C21_FailedCheckIsRecorded ==
    (WellFormed /\ card.path = "local" /\ PastVerify) =>
        /\ card.failed_at # "verify_local"
        /\ card.verified \in {"true", "false"}
        /\ card.pc = "ok" => card.entries
        /\ card.verified = "true" =>
              "true" \in verify(card.sig, <<"header", "payload">>, card.local_key, "ES256")

\* The stages of decode that take the scanned text apart.
FormatStages ==
    {"decode_qr_data", "decode_header", "parts", "decompress_data", "json", "iss", "kid"}

\* C22: a text that begins with shc:/ and is malformed inside ends the SHC
\* decoder with an error value, never with a panic of the decode task.
C22_MalformationIsError ==
    card.failed_at \in FormatStages => card.pc = "err"

\* C31: a card with sound pairs, header and claims passes the payload
\* stage both when its header has zip DEF and its second part is the
\* base64url text of the deflated claims, and when its header has no zip
\* and its second part is the base64url text of the claims themselves.
C31_PayloadStage ==
    (/\ card.numeric = "pairs"
     /\ card.flaws = {}
     /\ card.pc # "start"
     /\ \/ card.zip /\ card.body = "b64_deflate_json"
        \/ ~card.zip /\ card.body = "b64_json") =>
        card.failed_at \notin {"decompress_data", "json", "iss"}

\* A compressed card passes the payload stage.
CompressedCardPasses ==
    (WellFormed /\ card.pc # "start") => card.failed_at \notin FormatStages

\* C37: a card is reported verified only when the key its signature was
\* checked with belongs to the issuer its claims name: a key stored for
\* another issuer under the same kid does not verify it.
C37_KeyOfNamedIssuer ==
    card.verified = "true" =>
        /\ card.path = "local" => card.local_key = "ec_good"
        /\ card.path = "fetched" => card.jwks_key = "ec_good"

\* C39: the on-demand refresh of an issuer that is in the store leaves
\* its name, website and canonical_iss as they were.
C39_RefreshKeepsIssuerFields ==
    card.stored_before.present =>
        /\ card.stored.name = card.stored_before.name
        /\ card.stored.website = card.stored_before.website
        /\ card.stored.canonical_iss = card.stored_before.canonical_iss

\* The name of a stored issuer survives the on-demand refresh.
RefreshKeepsName ==
    card.stored_before.present => card.stored.name = card.stored_before.name

\* C28: whenever the kid is not in the local store and a verification
\* outcome is recorded, the issuer's JWKS was requested first, and a JWKS
\* that arrived was the key set searched; also when the issuer's row is
\* fresh.
C28_UnknownKidAlwaysFetches ==
    (card.path = "fetched" /\ card.verified # "none") =>
        /\ card.fetched
        /\ card.net = "ok" => card.jwk_set

\* C29: on the path of an unknown kid, once the JWKS was requested decode
\* goes on to the entries with a boolean outcome: it ends neither in the
\* refresh nor in the check that follows it.
C29_RefreshOutcomeIsRecorded ==
    (card.path = "fetched" /\ card.fetched /\ card.pc # "save") =>
        /\ card.failed_at \notin {"save", "verify_fetched"}
        /\ card.pc # "verify_fetched" => card.verified \in {"true", "false"}

\* C30: a signature check on the local path is made with ES256 and one on
\* the fetched path with the algorithm the header declares; both check the
\* third part of the JWS against the text header.payload.
C30_AlgorithmByPath ==
    card.check # NoCheck =>
        /\ card.check.path = card.path
        /\ card.path = "local" => card.check.alg = "ES256"
        /\ card.path = "fetched" => card.check.alg = card.alg
        /\ card.check.message = <<"header", "payload">>
        /\ card.check.signature = card.sig

\* C30 happens: a card whose header declares RS256 was checked with ES256
\* under the stored key and verified.
C30_Witness ==
    /\ card.pc = "ok"
    /\ card.path = "local"
    /\ card.alg = "RS256"
    /\ card.check.alg = "ES256"
    /\ card.verified = "true"

\* The fetched path checked a card that declares RS256 with RS256.
FetchedPathUsesHeader ==
    /\ card.path = "fetched"
    /\ card.alg = "RS256"
    /\ card.check.alg = "RS256"
    /\ card.verified = "false"

(***************************************************************************)
(* Specifications                                                          *)
(***************************************************************************)

CardParked == PairsParked /\ TxParked /\ PipelineParked

RefreshStart == RefreshInit /\ UiParked /\ EngineParked /\ ChainParked /\ CardParked

SpecRefresh == RefreshStart /\ [][RefreshNext]_vars

UiStart == UiInit /\ RefreshParked /\ EngineParked /\ ChainParked /\ CardParked

SpecUi == UiStart /\ [][UiNext]_vars

EngineStart == EngineInit /\ RefreshParked /\ UiParked /\ ChainParked /\ CardParked

SpecEngine == EngineStart /\ [][EngineNext]_vars

\* The session with its scheduling: select takes a branch that stays ready,
\* tokio drives a send to its end, and the consumer keeps receiving.
FairSpecEngine ==
    /\ EngineStart
    /\ [][EngineNext]_vars
    /\ WF_vars(OpenOk)
    /\ WF_vars(SendDone)
    /\ WF_vars(SendFailed)
    /\ WF_vars(ErrSendDone)
    /\ WF_vars(ConsumerRecv)
    /\ SF_vars(EngineCancelled)

DirectoryStart == DirectoryInit /\ UiParked /\ EngineParked /\ ChainParked /\ CardParked

SpecDirectory == DirectoryStart /\ [][DirectoryNext]_vars

UpdateStart == UpdateInit /\ UiParked /\ EngineParked /\ ChainParked /\ CardParked

SpecUpdate == UpdateStart /\ [][DirectoryNext]_vars

SpecProgress == UpdateStart /\ [][ProgressNext]_vars

ChainStart == ChainInit /\ RefreshParked /\ UiParked /\ EngineParked /\ CardParked

SpecChain == ChainStart /\ [][ChainNext]_vars

SpecSettings == ChainStart /\ [][SettingsNext]_vars

PairsStart == PairsInit /\ RefreshParked /\ UiParked /\ EngineParked /\ ChainParked /\ TxParked /\ PipelineParked

SpecPairs == PairsStart /\ [][PairsNext]_vars

TxStart == TxInit /\ RefreshParked /\ UiParked /\ EngineParked /\ ChainParked /\ PairsParked /\ PipelineParked

SpecTx == TxStart /\ [][TxNext]_vars

CardStart == CardInit /\ RefreshParked /\ UiParked /\ EngineParked /\ ChainParked /\ PairsParked /\ TxParked

SpecCard == CardStart /\ [][CardNext]_vars

====
